---- MODULE Spec2Model ----
(***************************************************************************)
(* Verification model of luperiq-sentinel: the capability checker         *)
(* (security/capability.rs), the tool executor (agent/tools.rs) with the  *)
(* audit sink (security/audit.rs), and the agent turn loop with the       *)
(* supervisor's per-conversation history (app.rs / main.rs).              *)
(*                                                                         *)
(* Strings are sequences of one-character strings where the code looks    *)
(* inside them (paths, commands, JSON text); longer literal pieces of a   *)
(* formatted message are kept as one token of the sequence.               *)
(***************************************************************************)
EXTENDS Integers, Sequences, FiniteSets, TLC

\* ------------------------------------------------------------------------
\* Bounds of the model
\* ------------------------------------------------------------------------

\* longest path given to a check, in components
MaxPathLen == 2

\* longest path/command allowlist of a policy
MaxAllow == 2

\* longest command string given to check_command, in characters
MaxCmdLen == 4

\* ------------------------------------------------------------------------
\* Generic helpers
\* ------------------------------------------------------------------------

SeqsUpTo(S, n) == UNION { [1..k -> S] : k \in 0..n }

Last(s) == s[Len(s)]

Front(s) == SubSeq(s, 1, Len(s) - 1)


\* slice::contains
InList(x, list) == \E i \in 1..Len(list) : list[i] = x

\* str::starts_with
starts_with(s, p) == Len(p) <= Len(s) /\ SubSeq(s, 1, Len(p)) = p

\* a small number as decimal text
DecStr(n) ==
    CASE n = 0 -> "0" [] n = 1 -> "1" [] n = 2 -> "2" [] n = 3 -> "3" [] n = 4 -> "4"
      [] n = 5 -> "5" [] n = 6 -> "6" [] n = 7 -> "7" [] n = 8 -> "8" [] n = 9 -> "9"
      [] OTHER -> "<n>"

\* Option<T>
None == [some |-> FALSE, v |-> <<>>]

Some(x) == [some |-> TRUE, v |-> x]

\* ------------------------------------------------------------------------
\* std::path::Path as used by the capability checker
\* ------------------------------------------------------------------------

Slash == "/"

RootDir == <<"/">>

CurDir == <<".">>

ParentDir == <<".", ".">>

RECURSIVE split(_, _)
split(s, cur) ==
    IF s = <<>> THEN <<cur>>
    ELSE IF Head(s) = Slash THEN <<cur>> \o split(Tail(s), <<>>)
    ELSE split(Tail(s), Append(cur, Head(s)))

has_root(s) == s # <<>> /\ s[1] = Slash

IsNamedSegment(seg) == seg # <<>> /\ seg # CurDir

\* Path::components: the root, a leading "." of a relative path, and every
\* non-empty segment other than "."
components(s) ==
    LET segs == split(s, <<>>) IN
       (IF has_root(s) THEN <<RootDir>> ELSE <<>>)
    \o (IF ~has_root(s) /\ s # <<>> /\ Head(segs) = CurDir THEN <<CurDir>> ELSE <<>>)
    \o SelectSeq(segs, IsNamedSegment)

IsNormal(c) == c \notin {RootDir, CurDir, ParentDir}

\* Path::parent on a component list
parent(comps) ==
    IF comps = <<>> \/ Last(comps) = RootDir THEN None
    ELSE Some(Front(comps))

\* Path::file_name on a component list
file_name(comps) ==
    IF comps # <<>> /\ IsNormal(Last(comps)) THEN Some(Last(comps))
    ELSE None

\* ------------------------------------------------------------------------
\* The filesystem seen by std::fs::canonicalize
\* ------------------------------------------------------------------------

T == <<"t">>

TX == <<"t", "x">>

E == <<"e">>

X == <<"x">>

L == <<"l">>

D == <<"d">>

N == <<"n">>

Dir == [kind |-> "dir", target |-> <<>>, data |-> <<>>]

File(data) == [kind |-> "file", target |-> <<>>, data |-> data]

Link(to) == [kind |-> "link", target |-> to, data |-> <<>>]

\* /t/x is a file, /t/l a symlink to the directory /e, /t/d a dangling
\* symlink to /e/n, /tx a directory whose name extends the name of /t
FS0 ==
    ( <<T>> :> Dir ) @@ ( <<T, X>> :> File(<<"a">>) ) @@ ( <<T, L>> :> Link(<<E>>) )
    @@ ( <<T, D>> :> Link(<<E, N>>) ) @@ ( <<E>> :> Dir )
    @@ ( <<TX>> :> Dir ) @@ ( <<TX, X>> :> File(<<"s">>) )

\* working directory of the process
Cwd == <<T>>

\* ELOOP limit of path resolution
MaxSymlinks == 2

IsDirNode(fsys, node) == node = <<>> \/ (node \in DOMAIN fsys /\ fsys[node].kind = "dir")

IsFileNode(fsys, node) == node \in DOMAIN fsys /\ fsys[node].kind = "file"

Err == [ok |-> FALSE, path |-> <<>>]

Ok(node) == [ok |-> TRUE, path |-> node]

\* realpath(3): walk the components from cur, following symlinks
RECURSIVE resolve(_, _, _, _)
resolve(fsys, cur, rest, hops) ==
    IF rest = <<>> THEN Ok(cur)
    ELSE LET c == Head(rest) IN
        IF c = RootDir THEN resolve(fsys, <<>>, Tail(rest), hops)
        ELSE IF ~IsDirNode(fsys, cur) THEN Err
        ELSE IF c = CurDir THEN resolve(fsys, cur, Tail(rest), hops)
        ELSE IF c = ParentDir
            THEN resolve(fsys, IF cur = <<>> THEN <<>> ELSE Front(cur), Tail(rest), hops)
        ELSE LET node == Append(cur, c) IN
            IF node \notin DOMAIN fsys THEN Err
            ELSE IF fsys[node].kind = "link"
                THEN IF hops >= MaxSymlinks THEN Err
                     ELSE resolve(fsys, <<>>, fsys[node].target \o Tail(rest), hops + 1)
            ELSE resolve(fsys, node, Tail(rest), hops)

\* std::fs::canonicalize of a component list; the empty path is an error
canonicalize(fsys, comps) ==
    IF comps = <<>> THEN Err ELSE resolve(fsys, Cwd, comps, 0)

\* PathBuf::to_string_lossy of a canonical path
RECURSIVE path_str(_)
path_str(node) ==
    IF node = <<>> THEN <<Slash>>
    ELSE IF Len(node) = 1 THEN <<Slash>> \o node[1]
    ELSE path_str(Front(node)) \o <<Slash>> \o Last(node)

\* ------------------------------------------------------------------------
\* security/capability.rs
\* ------------------------------------------------------------------------

Allowed == [allowed |-> TRUE, reason |-> <<>>]

Denied(reason) == [allowed |-> FALSE, reason |-> reason]

\* canon_parent.join(filename), if the parent resolved
join_parent(canon_parent, filename) ==
    IF ~canon_parent.ok THEN Err ELSE Ok(Append(canon_parent.path, filename))

\* the Err arm of canonicalize(path): the parent is canonicalized and the
\* file name joined to it; no parent, no file name or no canonical parent
\* is an error
or_parent(fsys, p, whole) ==
    IF whole.ok THEN whole
    ELSE IF ~parent(p).some \/ ~file_name(p).some THEN Err
    ELSE join_parent(canonicalize(fsys, parent(p).v), file_name(p).v)

\* the canonical form check_path compares: canonicalize(path), or for a
\* path that does not resolve, canonicalize(parent) joined with file_name
canonical_of(fsys, path) ==
    or_parent(fsys, components(path), canonicalize(fsys, components(path)))

\* the match on canonicalize(allowed_prefix): the canonical string, or the
\* entry as configured
or_configured(canon, allowed_prefix) ==
    IF canon.ok THEN path_str(canon.path) ELSE allowed_prefix

\* faulty variant: the entry is compared as configured, never canonicalized
canon_prefix_raw(fsys, allowed_prefix) == allowed_prefix

\* the prefix an allowlist entry is compared as
canon_prefix(fsys, allowed_prefix) ==
    or_configured(canonicalize(fsys, components(allowed_prefix)), allowed_prefix)

\* check_path once the path has been canonicalized
match_prefixes(fsys, path, allowed, operation, canonical) ==
    IF ~canonical.ok
        THEN Denied(<<"cannot resolve path '">> \o path \o <<"'">>)
    ELSE IF \E i \in 1..Len(allowed) :
                starts_with(path_str(canonical.path), canon_prefix(fsys, allowed[i]))
        THEN Allowed
    ELSE Denied(<<operation, " access denied for path '">> \o path \o <<"'">>)

check_path(fsys, path, allowed, operation) ==
    IF allowed = <<>>
        THEN Denied(<<"no ", operation, " paths are allowed">>)
    ELSE match_prefixes(fsys, path, allowed, operation, canonical_of(fsys, path))

check_file_read(fsys, c, path) == check_path(fsys, path, c.allowed_read_paths, "read")

check_file_write(fsys, c, path) == check_path(fsys, path, c.allowed_write_paths, "write")

\* faulty variant: the base name of the command is not looked at
check_command_exact(c, command) ==
    IF c.allowed_commands = <<>> THEN Denied(<<"no commands are allowed">>)
    ELSE IF \E i \in 1..Len(c.allowed_commands) : c.allowed_commands[i] = command
        THEN Allowed
    ELSE Denied(<<"command '">> \o command \o <<"' not in allowlist">>)

\* the file name of the command if it has one, the command itself if not
base_name(fname, command) == IF fname.some THEN fname.v ELSE command

\* the allowlist test of check_command
in_allowlist(c, command, base) ==
    IF \E i \in 1..Len(c.allowed_commands) :
            c.allowed_commands[i] = base \/ c.allowed_commands[i] = command
        THEN Allowed
    ELSE Denied(<<"command '">> \o command \o <<"' not in allowlist">>)

check_command(c, command) ==
    IF c.allowed_commands = <<>>
        THEN Denied(<<"no commands are allowed">>)
    ELSE in_allowlist(c, command, base_name(file_name(components(command)), command))

\* ------------------------------------------------------------------------
\* net/json.rs: JsonValue, its accessors and its serializer
\* ------------------------------------------------------------------------

JNull == [t |-> "null", s |-> <<>>, items |-> <<>>]

\* an integer, kept as its decimal digits
JInt(digits) == [t |-> "number", s |-> digits, items |-> <<>>]

JStr(s) == [t |-> "string", s |-> s, items |-> <<>>]

JArr(items) == [t |-> "array", s |-> <<>>, items |-> items]

\* an object is the ordered list of its (key, value) pairs
JObj(pairs) == [t |-> "object", s |-> <<>>, items |-> pairs]

Pair(k, v) == [k |-> k, val |-> v]

RECURSIVE find_pair(_, _)
find_pair(pairs, key) ==
    IF pairs = <<>> THEN None
    ELSE IF Head(pairs).k = key THEN Some(Head(pairs).val)
    ELSE find_pair(Tail(pairs), key)

\* JsonValue::get
get(val, key) == IF val.t = "object" THEN find_pair(val.items, key) ELSE None

\* Option::and_then(|v| v.as_str())
get_str(val, key) ==
    IF get(val, key).some /\ get(val, key).v.t = "string"
        THEN Some(get(val, key).v.s)
    ELSE None

RECURSIVE escape_string(_)
escape_string(s) ==
    IF s = <<>> THEN <<>>
    ELSE (CASE Head(s) = "\"" -> <<"\\", "\"">>
            [] Head(s) = "\\" -> <<"\\", "\\">>
            [] Head(s) = "\n" -> <<"\\", "n">>
            [] OTHER -> <<Head(s)>>) \o escape_string(Tail(s))

RECURSIVE serialize(_)
RECURSIVE serialize_items(_, _, _)
serialize_items(items, i, is_object) ==
    IF i > Len(items) THEN <<>>
    ELSE (IF i > 1 THEN <<",">> ELSE <<>>)
        \o (IF is_object
                THEN <<"\"">> \o escape_string(items[i].k) \o <<"\"", ":">>
                     \o serialize(items[i].val)
                ELSE serialize(items[i]))
        \o serialize_items(items, i + 1, is_object)

serialize(val) ==
    CASE val.t = "null" -> <<"null">>
      [] val.t = "bool" -> val.s
      [] val.t = "number" -> val.s
      [] val.t = "string" -> <<"\"">> \o escape_string(val.s) \o <<"\"">>
      [] val.t = "array" -> <<"[">> \o serialize_items(val.items, 1, FALSE) \o <<"]">>
      [] val.t = "object" -> <<"{">> \o serialize_items(val.items, 1, TRUE) \o <<"}">>

to_json_string(val) == serialize(val)

\* ------------------------------------------------------------------------
\* net/json.rs: the parser. Positions are 1-based; a parse step returns
\* whether it worked, what it read and the position after it. Strings are
\* parsed over the tokens of the model: the literals true, false and null are
\* one token each, and \u escapes, fractions and exponents are not among the
\* tokens the model feeds it.
\* ------------------------------------------------------------------------

JTrue == [t |-> "bool", s |-> <<"true">>, items |-> <<>>]

JFalse == [t |-> "bool", s |-> <<"false">>, items |-> <<>>]

PFail(pos) == [ok |-> FALSE, v |-> JNull, pos |-> pos]

POk(v, pos) == [ok |-> TRUE, v |-> v, pos |-> pos]

Whitespace == {" ", "\t", "\n", "\r"}

Digits == {"0", "1", "2", "3", "4", "5", "6", "7", "8", "9"}

RECURSIVE skip_whitespace(_, _)
skip_whitespace(s, pos) ==
    IF pos <= Len(s) /\ s[pos] \in Whitespace THEN skip_whitespace(s, pos + 1) ELSE pos

\* the character an escape sequence stands for
unescape(ch) ==
    CASE ch = "n" -> "\n"
      [] ch = "r" -> "\r"
      [] ch = "t" -> "\t"
      [] ch = "b" -> "<U+0008>"
      [] ch = "f" -> "<U+000C>"
      [] OTHER -> ch

\* parse_string after the opening quote
RECURSIVE scan_string(_, _, _)
scan_string(s, pos, acc) ==
    IF pos > Len(s) THEN PFail(pos)
    ELSE IF s[pos] = "\"" THEN POk(acc, pos + 1)
    ELSE IF s[pos] = "\\"
        THEN IF pos + 1 > Len(s) THEN PFail(pos + 1)
             ELSE IF s[pos + 1] \in {"\"", "\\", "/", "n", "r", "t", "b", "f"}
                THEN scan_string(s, pos + 2, Append(acc, unescape(s[pos + 1])))
             ELSE PFail(pos + 1)
    ELSE scan_string(s, pos + 1, Append(acc, s[pos]))

parse_string(s, pos) == scan_string(s, pos + 1, <<>>)

RECURSIVE scan_digits(_, _)
scan_digits(s, pos) ==
    IF pos <= Len(s) /\ s[pos] \in Digits THEN scan_digits(s, pos + 1) ELSE pos

\* the position after the integer part that starts at pos, 0 if there is none
integer_part(s, pos) ==
    IF pos <= Len(s) /\ s[pos] = "0" THEN pos + 1
    ELSE IF pos <= Len(s) /\ s[pos] \in Digits THEN scan_digits(s, pos + 1)
    ELSE 0

\* num_str.parse::<i64>() kept as the digits i64::to_string gives back
int_digits(num_str) == IF num_str = <<"-", "0">> THEN <<"0">> ELSE num_str

number_from(s, start, end) ==
    IF end = 0 THEN PFail(start) ELSE POk(JInt(int_digits(SubSeq(s, start, end - 1))), end)

parse_number(s, pos) ==
    number_from(s, pos, integer_part(s, IF s[pos] = "-" THEN pos + 1 ELSE pos))

string_value(r) == IF r.ok THEN POk(JStr(r.v), r.pos) ELSE r

RECURSIVE parse_value(_, _)
RECURSIVE parse_elements(_, _, _)
RECURSIVE parse_members(_, _, _)

\* after a value of an array: "]" ends it, "," goes on
element_sep(s, pos, items) ==
    IF pos > Len(s) THEN PFail(pos)
    ELSE IF s[pos] = "]" THEN POk(JArr(items), pos + 1)
    ELSE IF s[pos] # "," THEN PFail(pos)
    ELSE parse_elements(s, pos + 1, items)

after_element(s, r, items) ==
    IF ~r.ok THEN r ELSE element_sep(s, skip_whitespace(s, r.pos), Append(items, r.v))

parse_elements(s, pos, items) == after_element(s, parse_value(s, pos), items)

array_from(s, pos) ==
    IF pos <= Len(s) /\ s[pos] = "]" THEN POk(JArr(<<>>), pos + 1)
    ELSE parse_elements(s, pos, <<>>)

parse_array(s, pos) == array_from(s, skip_whitespace(s, pos + 1))

\* after a value of an object: "}" ends it, "," goes on
member_sep(s, pos, pairs) ==
    IF pos > Len(s) THEN PFail(pos)
    ELSE IF s[pos] = "}" THEN POk(JObj(pairs), pos + 1)
    ELSE IF s[pos] # "," THEN PFail(pos)
    ELSE parse_members(s, pos + 1, pairs)

after_member(s, r, key, pairs) ==
    IF ~r.ok THEN r
    ELSE member_sep(s, skip_whitespace(s, r.pos), Append(pairs, Pair(key, r.v)))

member_value(s, pos, key, pairs) ==
    IF pos > Len(s) \/ s[pos] # ":" THEN PFail(pos)
    ELSE after_member(s, parse_value(s, pos + 1), key, pairs)

after_key(s, k, pairs) ==
    IF ~k.ok THEN PFail(k.pos) ELSE member_value(s, skip_whitespace(s, k.pos), k.v, pairs)

member_key(s, pos, pairs) ==
    IF pos > Len(s) \/ s[pos] # "\"" THEN PFail(pos)
    ELSE after_key(s, parse_string(s, pos), pairs)

parse_members(s, pos, pairs) == member_key(s, skip_whitespace(s, pos), pairs)

object_from(s, pos) ==
    IF pos <= Len(s) /\ s[pos] = "}" THEN POk(JObj(<<>>), pos + 1)
    ELSE parse_members(s, pos, <<>>)

parse_object(s, pos) == object_from(s, skip_whitespace(s, pos + 1))

value_at(s, pos) ==
    IF pos > Len(s) THEN PFail(pos)
    ELSE CASE s[pos] = "\"" -> string_value(parse_string(s, pos))
           [] s[pos] = "{" -> parse_object(s, pos)
           [] s[pos] = "[" -> parse_array(s, pos)
           [] s[pos] = "true" -> POk(JTrue, pos + 1)
           [] s[pos] = "false" -> POk(JFalse, pos + 1)
           [] s[pos] = "null" -> POk(JNull, pos + 1)
           [] s[pos] \in Digits \cup {"-"} -> parse_number(s, pos)
           [] OTHER -> PFail(pos)

parse_value(s, pos) == value_at(s, skip_whitespace(s, pos))

\* nothing but whitespace may follow the value
whole_input(s, r) ==
    IF r.ok /\ skip_whitespace(s, r.pos) = Len(s) + 1 THEN r ELSE PFail(r.pos)

\* json::parse
parse(input) == whole_input(input, parse_value(input, skip_whitespace(input, 1)))

\* ------------------------------------------------------------------------
\* security/audit.rs: the events handed to Auditor::log
\* ------------------------------------------------------------------------

MessageReceived(chat_id, user_id) ==
    [event |-> "message_received", chat_id |-> chat_id, user_id |-> user_id]

UnauthorizedUser(user_id) == [event |-> "unauthorized_user", user_id |-> user_id]

ToolCallAllowed(tool, params) ==
    [event |-> "tool_call_allowed", tool |-> tool, params |-> params, reason |-> <<>>]

ToolCallDenied(tool, params, reason) ==
    [event |-> "tool_call_denied", tool |-> tool, params |-> params, reason |-> reason]

\* ------------------------------------------------------------------------
\* The operating system under the tool executor
\* ------------------------------------------------------------------------

\* what the environment decides about an operation once it is started
NoOutcome == [kind |-> "none", code |-> 0, stdout |-> <<>>, stderr |-> <<>>]

IoOk == [kind |-> "ok", code |-> 0, stdout |-> <<>>, stderr |-> <<>>]

IoError == [kind |-> "io_error", code |-> 0, stdout |-> <<>>, stderr |-> <<>>]

SpawnError == [kind |-> "spawn_error", code |-> 0, stdout |-> <<>>, stderr |-> <<>>]

WaitError == [kind |-> "wait_error", code |-> 0, stdout |-> <<>>, stderr |-> <<>>]

TimedOut == [kind |-> "timeout", code |-> 0, stdout |-> <<>>, stderr |-> <<>>]

Exited(code, out, err) == [kind |-> "exit", code |-> code, stdout |-> out, stderr |-> err]

\* the file a write(2) with O_CREAT|O_TRUNC lands on: an existing file, a new
\* name in an existing directory, or the target of a dangling symlink
RECURSIVE write_target(_, _, _)

\* the node the name stands for in its directory: free, or a symlink to follow
at_node(fsys, node, hops) ==
    IF node \notin DOMAIN fsys THEN Ok(node)
    ELSE IF fsys[node].kind = "link" /\ hops < MaxSymlinks
        THEN write_target(fsys, <<RootDir>> \o fsys[node].target, hops + 1)
    ELSE Err

\* the leaf name in its resolved parent, which has to be a directory
create_in(fsys, canon_parent, leaf, hops) ==
    IF ~canon_parent.ok \/ ~IsDirNode(fsys, canon_parent.path) THEN Err
    ELSE at_node(fsys, Append(canon_parent.path, leaf), hops)

\* an existing file is truncated, a directory refused, anything else created
write_through(fsys, comps, hops, canon) ==
    IF canon.ok THEN (IF IsDirNode(fsys, canon.path) THEN Err ELSE canon)
    ELSE IF comps = <<>> \/ ~IsNormal(Last(comps)) THEN Err
    ELSE create_in(fsys, resolve(fsys, Cwd, Front(comps), 0), Last(comps), hops)

write_target(fsys, comps, hops) ==
    write_through(fsys, comps, hops, canonicalize(fsys, comps))

\* byte order of the characters of the model
CharCode(ch) ==
    CASE ch = "\"" -> 34 [] ch = "." -> 46 [] ch = "/" -> 47 [] ch = "a" -> 97
      [] ch = "d" -> 100 [] ch = "e" -> 101 [] ch = "h" -> 104 [] ch = "i" -> 105
      [] ch = "l" -> 108 [] ch = "n" -> 110 [] ch = "r" -> 114 [] ch = "s" -> 115
      [] ch = "t" -> 116 [] ch = "x" -> 120 [] OTHER -> 0

\* String::cmp
RECURSIVE str_le(_, _)
str_le(a, b) ==
    IF a = <<>> THEN TRUE
    ELSE IF b = <<>> THEN FALSE
    ELSE IF Head(a) = Head(b) THEN str_le(Tail(a), Tail(b))
    ELSE CharCode(Head(a)) < CharCode(Head(b))

\* Vec::sort of a set of distinct lines
RECURSIVE sorted(_)
sorted(lines) ==
    IF lines = {} THEN <<>>
    ELSE LET least == CHOOSE l \in lines : \A m \in lines : str_le(l, m)
         IN <<least>> \o sorted(lines \ {least})

\* [String]::join("\n")
RECURSIVE join_lines(_)
join_lines(ls) ==
    IF ls = <<>> THEN <<>>
    ELSE IF Len(ls) = 1 THEN ls[1]
    ELSE ls[1] \o <<"\n">> \o join_lines(Tail(ls))

\* ------------------------------------------------------------------------
\* agent/tools.rs: ToolExecutor
\* ------------------------------------------------------------------------

NoQuery == [op |-> "none", arg |-> <<>>]

Pending == [allowed |-> FALSE, reason |-> <<"pending">>]

\* what an operation did once it was started: its Result<String, String>,
\* the kind of operation, the filesystem it leaves, the processes it spawned
OpResult(ok, text, tag, fsys, spawned) ==
    [ok |-> ok, text |-> text, tag |-> tag, fs |-> fsys, spawned |-> spawned]

\* an early return before any check: no check consulted, nothing logged
Rejected(fsys, text) ==
    [ok |-> FALSE, text |-> text, events |-> <<>>, trace |-> <<>>, fs |-> fsys,
     spawned |-> <<>>, query |-> NoQuery, verdict |-> Pending]

\* faulty variant: the denial is returned without being logged
DeniedOutcome_unlogged(fsys, tool, params_str, query, verdict) ==
    [ok |-> FALSE, text |-> <<"access denied: ">> \o verdict.reason,
     events |-> <<>>, trace |-> <<"check">>, fs |-> fsys, spawned |-> <<>>,
     query |-> query, verdict |-> verdict]

\* the Denied arm of the capability match
DeniedOutcome(fsys, tool, params_str, query, verdict) ==
    [ok |-> FALSE, text |-> <<"access denied: ">> \o verdict.reason,
     events |-> <<ToolCallDenied(tool, params_str, verdict.reason)>>,
     trace |-> <<"check", "audit">>, fs |-> fsys, spawned |-> <<>>,
     query |-> query, verdict |-> verdict]

\* the Allowed arm of the capability match, and the operation after it
AllowedOutcome(tool, params_str, query, verdict, op) ==
    [ok |-> op.ok, text |-> op.text,
     events |-> <<ToolCallAllowed(tool, params_str)>>,
     trace |-> <<"check", "audit", op.tag>>, fs |-> op.fs, spawned |-> op.spawned,
     query |-> query, verdict |-> verdict]

\* match self.caps.check_*(..): what one exec_* call did, with the check it
\* consulted and the answer it got
match_check(fsys, tool, params_str, query, verdict, op) ==
    IF verdict.allowed THEN AllowedOutcome(tool, params_str, query, verdict, op)
    ELSE DeniedOutcome(fsys, tool, params_str, query, verdict)

\* fs::read_to_string(path)
read_to_string(fsys, path, oc) ==
    IF oc.kind # "ok"
        THEN OpResult(FALSE, <<"failed to read '">> \o path \o <<"': ", "io error">>,
                      "read", fsys, <<>>)
    ELSE OpResult(TRUE, fsys[canonicalize(fsys, components(path)).path].data,
                  "read", fsys, <<>>)

\* fs::write(path, content)
fs_write(fsys, path, content, oc) ==
    IF oc.kind # "ok"
        THEN OpResult(FALSE, <<"failed to write '">> \o path \o <<"': ", "io error">>,
                      "write", fsys, <<>>)
    ELSE OpResult(TRUE, <<"wrote ", DecStr(Len(content)), " bytes to '">> \o path \o <<"'">>,
                  "write",
                  (write_target(fsys, components(path), 0).path :> File(content)) @@ fsys,
                  <<>>)

\* the lines of a directory listing: names, directories suffixed with "/"
dir_lines(fsys, dir) ==
    { Last(node) \o (IF fsys[node].kind = "dir" THEN <<Slash>> ELSE <<>>) :
        node \in { n \in DOMAIN fsys : Len(n) = Len(dir) + 1 /\ Front(n) = dir } }

\* fs::read_dir(path), the entries sorted and joined
read_dir(fsys, path, oc) ==
    IF oc.kind # "ok"
        THEN OpResult(FALSE, <<"failed to list '">> \o path \o <<"': ", "io error">>,
                      "list", fsys, <<>>)
    ELSE OpResult(TRUE,
                  join_lines(sorted(dir_lines(fsys, canonicalize(fsys, components(path)).path))),
                  "list", fsys, <<>>)

\* faulty variant: stderr follows stdout with nothing between them
command_output_unseparated(stdout, stderr) == stdout \o stderr

\* stdout, then the separator and stderr if stderr is not empty
command_output(stdout, stderr) ==
    stdout \o (IF stderr # <<>>
                THEN (IF stdout # <<>> THEN <<"\n--- stderr ---\n">> ELSE <<>>) \o stderr
                ELSE <<>>)

\* Command::new(command).args(args).spawn() and the wait for the child
run(fsys, command, args, oc) ==
    CASE oc.kind = "spawn_error" ->
            OpResult(FALSE, <<"failed to run '">> \o command \o <<"': ", "io error">>,
                     "spawn", fsys, <<>>)
      [] oc.kind = "wait_error" ->
            OpResult(FALSE, <<"error waiting for '">> \o command \o <<"': ", "io error">>,
                     "spawn", fsys, <<[command |-> command, args |-> args]>>)
      [] oc.kind = "timeout" ->
            OpResult(FALSE, <<"command '">> \o command \o <<"' timed out after ", "<secs>", "s">>,
                     "spawn", fsys, <<[command |-> command, args |-> args]>>)
      [] oc.kind = "exit" /\ oc.code # 0 ->
            OpResult(FALSE, <<"command exited with status ", DecStr(oc.code), "\n">>
                                \o command_output(oc.stdout, oc.stderr),
                     "spawn", fsys, <<[command |-> command, args |-> args]>>)
      [] OTHER ->
            OpResult(TRUE, command_output(oc.stdout, oc.stderr),
                     "spawn", fsys, <<[command |-> command, args |-> args]>>)

\* faulty variant: the allowed event is logged after the read, if it worked
log_after_read(r) ==
    IF ~r.verdict.allowed THEN r
    ELSE [r EXCEPT !.events = IF r.ok THEN @ ELSE <<>>,
                   !.trace = IF r.ok THEN <<"check", "read", "audit">>
                             ELSE <<"check", "read">>]

exec_read_file_logging_after(fsys, c, input, params_str, oc) ==
    IF ~get_str(input, <<"path">>).some
        THEN Rejected(fsys, <<"missing 'path' parameter">>)
    ELSE log_after_read(
            match_check(fsys, "read_file", params_str,
                        [op |-> "read", arg |-> get_str(input, <<"path">>).v],
                        check_file_read(fsys, c, get_str(input, <<"path">>).v),
                        read_to_string(fsys, get_str(input, <<"path">>).v, oc)))

exec_read_file(fsys, c, input, params_str, oc) ==
    IF ~get_str(input, <<"path">>).some
        THEN Rejected(fsys, <<"missing 'path' parameter">>)
    ELSE match_check(fsys, "read_file", params_str,
                     [op |-> "read", arg |-> get_str(input, <<"path">>).v],
                     check_file_read(fsys, c, get_str(input, <<"path">>).v),
                     read_to_string(fsys, get_str(input, <<"path">>).v, oc))

\* faulty variant: the write consults the file-read check
exec_write_file_read_checked(fsys, c, input, params_str, oc) ==
    IF ~get_str(input, <<"path">>).some
        THEN Rejected(fsys, <<"missing 'path' parameter">>)
    ELSE IF ~get_str(input, <<"content">>).some
        THEN Rejected(fsys, <<"missing 'content' parameter">>)
    ELSE match_check(fsys, "write_file", params_str,
                     [op |-> "read", arg |-> get_str(input, <<"path">>).v],
                     check_file_read(fsys, c, get_str(input, <<"path">>).v),
                     fs_write(fsys, get_str(input, <<"path">>).v,
                              get_str(input, <<"content">>).v, oc))

\* faulty variant: 'content' is extracted after the check and its audit event
exec_write_file_late_content(fsys, c, input, params_str, oc) ==
    IF ~get_str(input, <<"path">>).some
        THEN Rejected(fsys, <<"missing 'path' parameter">>)
    ELSE match_check(fsys, "write_file", params_str,
                     [op |-> "write", arg |-> get_str(input, <<"path">>).v],
                     check_file_write(fsys, c, get_str(input, <<"path">>).v),
                     IF ~get_str(input, <<"content">>).some
                        THEN OpResult(FALSE, <<"missing 'content' parameter">>,
                                      "param", fsys, <<>>)
                     ELSE fs_write(fsys, get_str(input, <<"path">>).v,
                                   get_str(input, <<"content">>).v, oc))

exec_write_file(fsys, c, input, params_str, oc) ==
    IF ~get_str(input, <<"path">>).some
        THEN Rejected(fsys, <<"missing 'path' parameter">>)
    ELSE IF ~get_str(input, <<"content">>).some
        THEN Rejected(fsys, <<"missing 'content' parameter">>)
    ELSE match_check(fsys, "write_file", params_str,
                     [op |-> "write", arg |-> get_str(input, <<"path">>).v],
                     check_file_write(fsys, c, get_str(input, <<"path">>).v),
                     fs_write(fsys, get_str(input, <<"path">>).v,
                              get_str(input, <<"content">>).v, oc))

exec_list_directory(fsys, c, input, params_str, oc) ==
    IF ~get_str(input, <<"path">>).some
        THEN Rejected(fsys, <<"missing 'path' parameter">>)
    ELSE match_check(fsys, "list_directory", params_str,
                     [op |-> "read", arg |-> get_str(input, <<"path">>).v],
                     check_file_read(fsys, c, get_str(input, <<"path">>).v),
                     read_dir(fsys, get_str(input, <<"path">>).v, oc))

\* filter_map(|v| v.as_str()) over the "args" array, empty if there is none
RECURSIVE string_items(_)
string_items(items) ==
    IF items = <<>> THEN <<>>
    ELSE (IF Head(items).t = "string" THEN <<Head(items).s>> ELSE <<>>)
         \o string_items(Tail(items))

command_args(input) ==
    IF get(input, <<"args">>).some /\ get(input, <<"args">>).v.t = "array"
        THEN string_items(get(input, <<"args">>).v.items)
    ELSE <<>>

exec_run_command(fsys, c, input, params_str, oc) ==
    IF ~get_str(input, <<"command">>).some
        THEN Rejected(fsys, <<"missing 'command' parameter">>)
    ELSE match_check(fsys, "run_command", params_str,
                     [op |-> "command", arg |-> get_str(input, <<"command">>).v],
                     check_command(c, get_str(input, <<"command">>).v),
                     run(fsys, get_str(input, <<"command">>).v, command_args(input), oc))

\* ------------------------------------------------------------------------
\* skills/mod.rs: the skills a SkillRunner has loaded. A skill binary is
\* known by what it does with its standard input.
\* ------------------------------------------------------------------------

LoadedSkill(name, tool_name, binary_path) ==
    [name |-> name, tool_name |-> tool_name, binary_path |-> binary_path]

\* SkillRunner.skills
skills ==
    << LoadedSkill("echo", "echo_tool", "reads_line"),
       LoadedSkill("slurp", "slurp_tool", "reads_to_eof"),
       LoadedSkill("clock", "clock_tool", "ignores_stdin") >>

\* SkillRunner::handles
handles(loaded, tool_name) == \E i \in 1..Len(loaded) : loaded[i].tool_name = tool_name

\* Iterator::find on the loaded skills
RECURSIVE find_skill(_, _)
find_skill(loaded, tool_name) ==
    IF loaded = <<>> THEN None
    ELSE IF Head(loaded).tool_name = tool_name THEN Some(Head(loaded))
    ELSE find_skill(Tail(loaded), tool_name)

\* faulty variant: the error flag is dropped
ToolResult_quiet(tool_use_id, content, is_error) ==
    [type |-> "tool_result", tool_use_id |-> tool_use_id, content |-> content,
     is_error |-> FALSE]

ToolResult(tool_use_id, content, is_error) ==
    [type |-> "tool_result", tool_use_id |-> tool_use_id, content |-> content,
     is_error |-> is_error]

\* faulty variant: a name that is no built-in is taken for list_directory
dispatch_listing_by_default(fsys, c, name, input, params_str, oc) ==
    CASE name = "read_file" -> exec_read_file(fsys, c, input, params_str, oc)
      [] name = "write_file" -> exec_write_file(fsys, c, input, params_str, oc)
      [] name = "run_command" -> exec_run_command(fsys, c, input, params_str, oc)
      [] OTHER -> exec_list_directory(fsys, c, input, params_str, oc)

\* match name { .. } in execute
dispatch(fsys, c, name, input, params_str, oc) ==
    CASE name = "read_file" -> exec_read_file(fsys, c, input, params_str, oc)
      [] name = "write_file" -> exec_write_file(fsys, c, input, params_str, oc)
      [] name = "list_directory" -> exec_list_directory(fsys, c, input, params_str, oc)
      [] name = "run_command" -> exec_run_command(fsys, c, input, params_str, oc)
      [] OTHER -> Rejected(fsys, <<"unknown tool: ", name>>)

\* match result { .. } in execute: the content block, with what the call did
returned(tool_use_id, r) ==
    [block |-> ToolResult(tool_use_id, r.text, ~r.ok), events |-> r.events,
     trace |-> r.trace, fs |-> r.fs, spawned |-> r.spawned,
     query |-> r.query, verdict |-> r.verdict]

\* ToolExecutor::execute
execute(fsys, c, tool_use_id, name, input, oc) ==
    returned(tool_use_id, dispatch(fsys, c, name, input, to_json_string(input), oc))

is_file_at(fsys, canon) == canon.ok /\ IsFileNode(fsys, canon.path)

is_dir_at(fsys, canon) == canon.ok /\ IsDirNode(fsys, canon.path)

\* the operating system can carry out the file operation on the path: the
\* file to read is a file, the directory to list a directory, the file to
\* write can be created or truncated
can_open(fsys, name, path) ==
    CASE name = "read_file" -> is_file_at(fsys, canonicalize(fsys, components(path)))
      [] name = "list_directory" -> is_dir_at(fsys, canonicalize(fsys, components(path)))
      [] name = "write_file" -> write_target(fsys, components(path), 0).ok
      [] OTHER -> FALSE

os_can_succeed(fsys, name, input) ==
    get_str(input, <<"path">>).some /\ can_open(fsys, name, get_str(input, <<"path">>).v)

\* ------------------------------------------------------------------------
\* State
\* ------------------------------------------------------------------------

VARIABLES
    caps,          \* CapabilityChecker: the three allowlists
    fs,            \* the filesystem
    cap_query,     \* the check asked of the capability checker
    cap_result,    \* its CapabilityResult, once it has answered
    audit,         \* the events the audit sink has received, in order
    procs,         \* the child processes spawned so far
    call,          \* the tool invocation last given to ToolExecutor::execute
    env,           \* what the operating system decided for its operation
    result,        \* the content block execute returned
    trace,         \* the effects of that invocation, in the order they happened
    telegram_allowed_users,  \* Config: the user ids allowed to talk to the agent
    conversations, \* HashMap from chat id to that chat's history
    pc,            \* where the supervisor loop is in handling a message
    msg,           \* the inbound message being handled
    round,         \* the rounds of run_agent_turn's loop completed
    api_resp,      \* the LlmResponse of the current round
    tool_idx,      \* the position in api_resp.content the tool loop is at
    tool_results,  \* the tool results collected in the current round
    turn_result,   \* what run_agent_turn returned
    sent,          \* the send_message calls made for the inbound message
    child,         \* the child process of a run_command or skill invocation
    elapsed,       \* start.elapsed() of its wait loop, in poll intervals
    step,          \* where that invocation is
    outcome,       \* the Result the invocation returned
    entry,         \* the entry point the process runs, and its configuration
    boot,          \* where the process is between its start and its loop
    did,           \* the calls the process has made to the outside, in order
    kernel,        \* what the kernel enforces on the process
    sandbox,       \* the SandboxResult being filled by apply_sandbox
    syscalls,      \* the raw syscalls of the sandbox bootstrap, in order
    bpf,           \* the seccomp filter at work on one syscall
    stream,        \* one round of run_agent_turn: the provider call and its streaming
    sup,           \* the supervisor loop over the connectors
    manifest,      \* a skill manifest and what parse_manifest made of it
    splitting,     \* split_message at work on one text
    telegram,      \* the TelegramClient and the updates its server holds
    pipe           \* a child, the pipes between it and the parent, and the parent's wait

envVars == <<caps, fs>>

capVars == <<cap_query, cap_result>>

toolVars == <<audit, procs, call, env, result, trace>>

turnVars ==
    <<telegram_allowed_users, conversations, pc, msg, round, api_resp, tool_idx,
      tool_results, turn_result, sent>>

procVars == <<child, elapsed, step, outcome>>

auxVars == <<splitting, telegram, pipe>>

loopVars == <<stream, sup, manifest, auxVars>>

sysVars == <<entry, boot, did, kernel, sandbox, syscalls, bpf, loopVars>>

vars == <<envVars, capVars, toolVars, turnVars, procVars, sysVars>>

\* ------------------------------------------------------------------------
\* Inputs of the capability checker
\* ------------------------------------------------------------------------

PathNames == {T, TX, E, X, L, D, N, ParentDir}

RECURSIVE join_path(_)
join_path(cs) ==
    IF Len(cs) = 1 THEN cs[1] ELSE join_path(Front(cs)) \o <<Slash>> \o Last(cs)

\* absolute and relative path strings without empty or "." segments
PathInputs ==
    { <<>>, <<Slash>> }
    \cup { join_path(cs) : cs \in SeqsUpTo(PathNames, MaxPathLen) \ {<<>>} }
    \cup { <<Slash>> \o join_path(cs) : cs \in SeqsUpTo(PathNames, MaxPathLen) \ {<<>>} }

\* allowlist entries: /t, /e, /t/l (symlink to /e), /t/l/n (nothing there),
\* /t/x (a file) and the empty string
PathEntries ==
    { path_str(<<T>>), path_str(<<E>>), path_str(<<T, L>>), path_str(<<T, L, N>>),
      path_str(<<T, X>>), <<>> }

PathLists == SeqsUpTo(PathEntries, MaxAllow)

CmdChars == {Slash, ".", "l", "r"}

CommandInputs == SeqsUpTo(CmdChars, MaxCmdLen)

CmdEntries == { <<"l">>, <<"r">>, <<Slash, "l">>, <<"l", Slash>>, ParentDir }

CmdLists == SeqsUpTo(CmdEntries, MaxAllow)

Policy(r, w, c) ==
    [allowed_read_paths |-> r, allowed_write_paths |-> w, allowed_commands |-> c]

InitCapQuery == cap_query = NoQuery /\ cap_result = Pending

\* ------------------------------------------------------------------------
\* Specification of the capability checker alone: a policy and a query are
\* drawn, and the checker answers the query
\* ------------------------------------------------------------------------

NoCall == [tool_use_id |-> "", name |-> "", input |-> JNull]

NoResult == [type |-> "none", tool_use_id |-> "", content |-> <<>>, is_error |-> FALSE]

\* no child process: nothing spawned yet
NoChild ==
    [state |-> "none", kind |-> "none", killed |-> FALSE, stdin |-> "none",
     written |-> <<>>, code |-> 0, stdout |-> <<>>, stderr |-> <<>>, held |-> FALSE]

NoReturn == [ok |-> FALSE, text |-> <<>>]

InitProc ==
    /\ child = NoChild
    /\ elapsed = 0
    /\ step = "idle"
    /\ outcome = NoReturn

\* no process started: nothing enforced, nothing called
NoEntry == [point |-> "none", sandbox |-> FALSE]

NoKernel ==
    [no_new_privs |-> FALSE, ruleset |-> "none", rules |-> {}, landlock |-> FALSE,
     seccomp |-> FALSE]

\* the SandboxResult apply_sandbox starts from, with the arguments of the
\* call, the rule it is at and the steps that have failed so far
NoSandboxResult ==
    [enable_seccomp |-> FALSE, enable_landlock |-> FALSE,
     seccomp_applied |-> FALSE, landlock_applied |-> FALSE,
     seccomp_error |-> FALSE, landlock_error |-> FALSE,
     next_rule |-> 1, failed |-> {}]

NoBpf == [arch |-> <<0, 0>>, nr |-> <<0, 0>>, pc |-> 0, A |-> <<0, 0>>, done |-> FALSE, ret |-> <<0, 0>>]

\* no round of run_agent_turn under way
NoStream ==
    [phase |-> "none", now |-> 0, last_edit |-> 0, streamed_len |-> 0,
     platform_msg_id |-> FALSE, calls |-> <<>>, llm |-> <<>>,
     retry_after |-> [some |-> FALSE, v |-> 0], slept |-> 0, retry |-> "none",
     stop_reason |-> "none", text_empty |-> FALSE, result |-> "running"]

\* the supervisor before its loop
NoSup ==
    [pc |-> "none", tick |-> 0, i |-> 0, batch |-> <<>>, had_messages |-> FALSE,
     history |-> <<>>, log |-> <<>>]

\* no manifest being parsed
NoManifest == [doc |-> <<>>, parsed |-> FALSE, ok |-> FALSE, tool_name |-> <<>>]

\* split_message not called
NoSplit == [text |-> <<>>, max_len |-> 0, remaining |-> <<>>, chunks |-> <<>>,
            state |-> "none", steps |-> 0]

\* no Telegram client
NoTelegram == [last_offset |-> 0, pending |-> <<>>, next_id |-> 1, response |-> <<>>,
               returned |-> <<>>, handed |-> <<>>, polls |-> 0, last |-> "none"]

NoPipe == [mode |-> "none", step |-> "idle", child |-> "none", reads |-> FALSE,
           stays |-> FALSE, work |-> 0, request |-> 0, stdin_pipe |-> 0,
           output |-> 0, stdout_pipe |-> 0, got |-> 0, elapsed |-> 0, clock |-> 0,
           result |-> "none"]

InitAux == splitting = NoSplit /\ telegram = NoTelegram /\ pipe = NoPipe

InitLoop == stream = NoStream /\ sup = NoSup /\ manifest = NoManifest /\ InitAux

InitSys ==
    /\ InitLoop
    /\ entry = NoEntry
    /\ boot = "none"
    /\ did = <<>>
    /\ kernel = NoKernel
    /\ sandbox = NoSandboxResult
    /\ syscalls = <<>>
    /\ bpf = NoBpf

InitTool ==
    /\ audit = <<>>
    /\ procs = <<>>
    /\ call = NoCall
    /\ env = NoOutcome
    /\ result = NoResult
    /\ trace = <<>>

NoMessage == [chat_id |-> 0, from_id |-> 0, text |-> <<>>]

NoResponse == [stop_reason |-> "none", content |-> <<>>]

\* the supervisor before its first poll: no conversation, no turn running
InitTurn ==
    /\ conversations = << >>
    /\ pc = "poll"
    /\ msg = NoMessage
    /\ round = 0
    /\ api_resp = NoResponse
    /\ tool_idx = 0
    /\ tool_results = <<>>
    /\ turn_result = "none"
    /\ sent = <<>>

InitCaps ==
    /\ fs = FS0
    /\ cap_result = Pending
    /\ InitTool
    /\ telegram_allowed_users = <<>>
    /\ InitTurn
    /\ InitProc
    /\ InitSys
    /\ \/ /\ caps \in { Policy(r, <<path_str(<<E>>)>>, <<<<"l">>>>) : r \in PathLists }
          /\ cap_query \in { [op |-> "read", arg |-> p] : p \in PathInputs }
       \/ /\ caps \in { Policy(<<path_str(<<E>>)>>, w, <<<<"l">>>>) : w \in PathLists }
          /\ cap_query \in { [op |-> "write", arg |-> p] : p \in PathInputs }
       \/ /\ caps \in { Policy(<<path_str(<<T>>)>>, <<>>, c) : c \in CmdLists }
          /\ cap_query \in { [op |-> "command", arg |-> c] : c \in CommandInputs }

CheckFileRead ==
    /\ cap_query.op = "read" /\ cap_result = Pending
    /\ cap_result' = check_file_read(fs, caps, cap_query.arg)
    /\ UNCHANGED <<sysVars, procVars, envVars, cap_query, toolVars, turnVars>>

CheckFileWrite ==
    /\ cap_query.op = "write" /\ cap_result = Pending
    /\ cap_result' = check_file_write(fs, caps, cap_query.arg)
    /\ UNCHANGED <<sysVars, procVars, envVars, cap_query, toolVars, turnVars>>

CheckCommand ==
    /\ cap_query.op = "command" /\ cap_result = Pending
    /\ cap_result' = check_command(caps, cap_query.arg)
    /\ UNCHANGED <<sysVars, procVars, envVars, cap_query, toolVars, turnVars>>

NextCaps == CheckFileRead \/ CheckFileWrite \/ CheckCommand

SpecCaps == InitCaps /\ [][NextCaps]_vars

\* ------------------------------------------------------------------------
\* Claims about the capability checker
\* ------------------------------------------------------------------------

\* the canonical form of the claims: symlinks and ".." resolved; for a leaf
\* that does not resolve, the canonical parent plus the leaf name
CanonicalForm(fsys, s) ==
    LET p == components(s) IN
    IF canonicalize(fsys, p).ok THEN canonicalize(fsys, p)
    ELSE IF p # <<>> /\ IsNormal(Last(p)) /\ canonicalize(fsys, Front(p)).ok
        THEN Ok(Append(canonicalize(fsys, Front(p)).path, Last(p)))
    ELSE Err

QueriedList ==
    IF cap_query.op = "read" THEN caps.allowed_read_paths ELSE caps.allowed_write_paths

\* C2 as stated: Allowed iff the allowlist is non-empty and the canonical
\* form of the path has the canonical form of some entry as a prefix.
C2_Original ==
    (cap_query.op \in {"read", "write"} /\ cap_result # Pending) =>
        ( cap_result.allowed <=>
            /\ QueriedList # <<>>
            /\ CanonicalForm(fs, cap_query.arg).ok
            /\ \E i \in 1..Len(QueriedList) :
                /\ CanonicalForm(fs, QueriedList[i]).ok
                /\ starts_with(path_str(CanonicalForm(fs, cap_query.arg).path),
                               path_str(CanonicalForm(fs, QueriedList[i]).path)) )

\* what an entry is compared as: its canonical form when std::fs::canonicalize
\* resolves it, the entry string as configured otherwise
EntryPrefix(fsys, e) ==
    IF canonicalize(fsys, components(e)).ok
        THEN path_str(canonicalize(fsys, components(e)).path)
    ELSE e

\* C2 (amended): check_file_read / check_file_write return Allowed iff the
\* allowlist is non-empty, the path has a canonical form, and that form has
\* as a string prefix, for some entry, the entry's canonical form if the
\* entry resolves and the entry's configured string if it does not.
C2_PathCheck ==
    (cap_query.op \in {"read", "write"} /\ cap_result # Pending) =>
        ( cap_result.allowed <=>
            /\ QueriedList # <<>>
            /\ CanonicalForm(fs, cap_query.arg).ok
            /\ \E i \in 1..Len(QueriedList) :
                starts_with(path_str(CanonicalForm(fs, cap_query.arg).path),
                            EntryPrefix(fs, QueriedList[i])) )

\* a write check of a leaf that does not exist yet, allowed through the
\* canonical form of its parent, which is reached by a symlink
C2_Witness ==
    /\ cap_query = [op |-> "write", arg |-> join_path(<<L, N>>)]
    /\ cap_result.allowed
    /\ caps.allowed_write_paths = <<path_str(<<T, L>>)>>

\* the trailing basenames of a command string: a "/"-free segment other
\* than "." and "..", followed only by "/" and "." segments
TrailingBasenames(c) ==
    { SubSeq(c, i, j) : <<i, j>> \in
        { ij \in (1..Len(c)) \X (1..Len(c)) :
            /\ ij[1] <= ij[2]
            /\ \A k \in ij[1]..ij[2] : c[k] # Slash
            /\ SubSeq(c, ij[1], ij[2]) \notin {CurDir, ParentDir}
            /\ (ij[1] = 1 \/ c[ij[1] - 1] = Slash)
            /\ \/ ij[2] = Len(c)
               \/ /\ c[ij[2] + 1] = Slash
                  /\ \A k \in (ij[2] + 2)..Len(c) :
                        \/ c[k] = Slash
                        \/ /\ c[k] = "."
                           /\ c[k - 1] = Slash
                           /\ (k = Len(c) \/ c[k + 1] = Slash) } }

\* C3: check_command returns Allowed iff the command allowlist is non-empty
\* and the command string or its trailing basename is an element of it.
C3_CommandCheck ==
    (cap_query.op = "command" /\ cap_result # Pending) =>
        ( cap_result.allowed <=>
            /\ caps.allowed_commands # <<>>
            /\ \/ InList(cap_query.arg, caps.allowed_commands)
               \/ \E b \in TrailingBasenames(cap_query.arg) :
                    InList(b, caps.allowed_commands) )

\* a command given with a directory prefix, allowed by its basename only
C3_Witness ==
    /\ cap_query = [op |-> "command", arg |-> <<Slash, "r", Slash, "l">>]
    /\ cap_result.allowed
    /\ ~InList(cap_query.arg, caps.allowed_commands)

\* ------------------------------------------------------------------------
\* Specification of the tool executor: a policy is drawn, then tools are
\* invoked one after the other on the same filesystem and audit sink
\* ------------------------------------------------------------------------

\* audit events after which the tool executor specification stops
MaxAudit == 2

ToolIds == {"tu_1", "tu_2"}

BuiltinTools == {"read_file", "write_file", "list_directory", "run_command"}

\* the names a tool-use block may carry: the built-ins, the tool of a loaded
\* skill, a name nobody handles
ToolNames == BuiltinTools \cup {"echo_tool", "nonexistent_tool"}

PathField(v) == Pair(<<"path">>, v)

ContentField(v) == Pair(<<"content">>, v)

CommandField(v) == Pair(<<"command">>, v)

ArgsField(v) == Pair(<<"args">>, v)

ToolInputs(name) ==
    CASE name = "read_file" ->
            { JNull, JObj(<<PathField(JInt(<<"7">>))>>) }
            \cup { JObj(<<PathField(JStr(path_str(p)))>>) :
                        p \in { <<T, X>>, <<T, N>>, <<E, N>> } }
      [] name = "list_directory" ->
            { JObj(<<>>) }
            \cup { JObj(<<PathField(JStr(path_str(p)))>>) : p \in { <<T>>, <<E>> } }
      [] name = "write_file" ->
            { JObj(<<ContentField(JStr(<<"h", "i">>))>>),
              JObj(<<PathField(JStr(path_str(<<T, N>>)))>>),
              JObj(<<PathField(JStr(path_str(<<T, N>>))), ContentField(JInt(<<"7">>))>>),
              JObj(<<PathField(JStr(path_str(<<T, N>>))), ContentField(JStr(<<"h", "i">>))>>),
              JObj(<<PathField(JStr(path_str(<<T, D>>))), ContentField(JStr(<<"\"">>))>>),
              JObj(<<PathField(JStr(path_str(<<E, N>>))), ContentField(JStr(<<"h", "i">>))>>) }
      [] name = "run_command" ->
            { JObj(<<>>),
              JObj(<<CommandField(JNull)>>),
              JObj(<<CommandField(JStr(<<"l">>))>>),
              JObj(<<CommandField(JStr(<<Slash, "r", Slash, "l">>)),
                     ArgsField(JArr(<<JStr(<<"a">>), JInt(<<"7">>)>>))>>),
              JObj(<<CommandField(JStr(<<"r">>))>>) }
      [] OTHER -> { JNull }

\* what the operating system can decide for the operation of a tool
OutcomesOf(fsys, name, input) ==
    IF name = "run_command"
        THEN { SpawnError, WaitError, TimedOut, Exited(0, <<"o">>, <<"e">>),
               Exited(0, <<>>, <<>>), Exited(1, <<>>, <<"e">>) }
    ELSE { IoError } \cup (IF os_can_succeed(fsys, name, input) THEN { IoOk } ELSE {})

ToolPolicies ==
    { Policy(<<path_str(<<T>>)>>, <<path_str(<<T>>)>>, <<<<"l">>>>),
      Policy(<<path_str(<<T>>)>>, <<path_str(<<E>>)>>, <<<<"l">>>>),
      Policy(<<>>, <<>>, <<>>) }

InitToolSpec ==
    /\ caps \in ToolPolicies
    /\ fs = FS0
    /\ InitCapQuery
    /\ InitTool
    /\ telegram_allowed_users = <<1>>
    /\ InitTurn
    /\ InitProc
    /\ InitSys

\* the state after a call of execute that did r; the operating system has
\* something to decide exactly when the call starts its operation
Apply(id, name, input, oc, r) ==
    /\ (Len(r.trace) = 3) <=> (oc # NoOutcome)
    /\ call' = [tool_use_id |-> id, name |-> name, input |-> input]
    /\ env' = oc
    /\ result' = r.block
    /\ trace' = r.trace
    /\ audit' = audit \o r.events
    /\ fs' = r.fs
    /\ procs' = procs \o r.spawned
    /\ cap_query' = r.query
    /\ cap_result' = r.verdict
    /\ UNCHANGED <<sysVars, caps, procVars>>

\* one call of ToolExecutor::execute and everything it does
Invoke(id, name, input, oc) ==
    Apply(id, name, input, oc, execute(fs, caps, id, name, input, oc))

Execute ==
    /\ Len(audit) < MaxAudit
    /\ \E id \in ToolIds, name \in ToolNames :
        \E input \in ToolInputs(name) :
            \E oc \in OutcomesOf(fs, name, input) \cup {NoOutcome} :
                Invoke(id, name, input, oc)
    /\ UNCHANGED turnVars

NextTool == Execute

SpecTool == InitToolSpec /\ [][NextTool]_vars

\* ------------------------------------------------------------------------
\* Claims about the tool executor
\* ------------------------------------------------------------------------

OpTags == {"read", "write", "list", "spawn"}

\* the invocation started its operation
Operated == \E i \in 1..Len(trace) : trace[i] \in OpTags

CheckDenied == cap_query.op # "none" /\ ~cap_result.allowed

CheckAllowed == cap_query.op # "none" /\ cap_result.allowed

RequiredParams(name) ==
    CASE name \in {"read_file", "list_directory"} -> { <<"path">> }
      [] name = "write_file" -> { <<"path">>, <<"content">> }
      [] name = "run_command" -> { <<"command">> }
      [] OTHER -> {}

HasStringParam(input, key) ==
    /\ input.t = "object"
    /\ \E i \in 1..Len(input.items) :
        input.items[i].k = key /\ input.items[i].val.t = "string"

StringParam(input, key) ==
    input.items[CHOOSE i \in 1..Len(input.items) : input.items[i].k = key].val.s

\* the input lacks a required parameter or carries it with a non-string type
BadParam(c) ==
    /\ c.name \in BuiltinTools
    /\ \E key \in RequiredParams(c.name) : ~HasStringParam(c.input, key)

\* the check the invocation has to pass: file-read for read/list, file-write
\* for write, command for run
RequiredCheck(c) ==
    CASE c.name \in {"read_file", "list_directory"} ->
            [op |-> "read", arg |-> StringParam(c.input, <<"path">>)]
      [] c.name = "write_file" ->
            [op |-> "write", arg |-> StringParam(c.input, <<"path">>)]
      [] c.name = "run_command" ->
            [op |-> "command", arg |-> StringParam(c.input, <<"command">>)]

\* C1: a built-in tool performs its operation (file read, file write,
\* directory listing, process spawn) only if the capability checker returned
\* Allowed for that invocation; on Denied there is no file I/O and no spawn,
\* and the result is an error whose text begins "access denied: ".
C1_AuthorizedOnly ==
    [][ call'.name \in BuiltinTools =>
            /\ (Operated' \/ fs' # fs \/ procs' # procs) =>
                    (~BadParam(call') /\ CheckAllowed' /\ cap_query' = RequiredCheck(call'))
            /\ CheckDenied' =>
                    /\ ~Operated' /\ fs' = fs /\ procs' = procs
                    /\ result'.is_error
                    /\ starts_with(result'.content, <<"access denied: ">>) ]_vars

\* read_file of /e/n under read_paths = [/t]: denied, nothing read
C1_Witness ==
    /\ call.name = "read_file"
    /\ call.input = JObj(<<PathField(JStr(path_str(<<E, N>>)))>>)
    /\ caps.allowed_read_paths = <<path_str(<<T>>)>>
    /\ CheckDenied
    /\ result.is_error
    /\ result.content = <<"access denied: ", "read", " access denied for path '",
                          Slash, "e", Slash, "n", "'">>
    /\ trace = <<"check", "audit">>

\* C4: a denied invocation puts exactly one event into the audit sink, a
\* tool_call_denied event with the serialized input as params and a
\* non-empty reason, and no tool_call_allowed event.
C4_DeniedAudited ==
    [][ (call'.name \in BuiltinTools /\ CheckDenied') =>
            /\ Len(audit') = Len(audit) + 1
            /\ Front(audit') = audit
            /\ Last(audit').event = "tool_call_denied"
            /\ Last(audit').tool = call'.name
            /\ Last(audit').params = to_json_string(call'.input)
            /\ Last(audit').reason # <<>> ]_vars

\* run_command of "r" under commands = [l]: the denial is in the sink with
\* the serialized input
C4_Witness ==
    /\ call.name = "run_command"
    /\ CheckDenied
    /\ audit # <<>>
    /\ Last(audit) = ToolCallDenied("run_command",
                        <<"{", "\"", "command", "\"", ":", "\"", "r", "\"", "}">>,
                        <<"command '", "r", "' not in allowlist">>)

\* C5: an allowed invocation puts exactly one event into the audit sink, a
\* tool_call_allowed event with the serialized input, before its operation
\* starts, whatever the operation then does.
C5_AllowedAuditedFirst ==
    [][ (call'.name \in BuiltinTools /\ CheckAllowed') =>
            /\ audit' = Append(audit, ToolCallAllowed(call'.name, to_json_string(call'.input)))
            /\ Operated'
            /\ \E i \in 1..Len(trace') :
                /\ trace'[i] = "audit"
                /\ \A j \in 1..Len(trace') :
                    /\ trace'[j] = "audit" => j = i
                    /\ trace'[j] \in OpTags => i < j ]_vars

\* an allowed write_file whose write then fails: the allowed event is there
C5_Witness ==
    /\ call.name = "write_file"
    /\ CheckAllowed
    /\ env = IoError
    /\ result.is_error
    /\ audit # <<>>
    /\ Last(audit).event = "tool_call_allowed"
    /\ Last(audit).params = to_json_string(call.input)
    /\ trace = <<"check", "audit", "write">>

\* C6: an invocation with a missing or non-string required parameter returns
\* an error result and consults no capability check, emits no audit event,
\* changes no file and spawns no process.
C6_BadParamInert ==
    [][ BadParam(call') =>
            /\ result'.is_error
            /\ result'.tool_use_id = call'.tool_use_id
            /\ cap_query'.op = "none"
            /\ trace' = <<>>
            /\ audit' = audit
            /\ fs' = fs
            /\ procs' = procs ]_vars

\* write_file with a path but a numeric content, after an earlier audited call
C6_Witness ==
    /\ call.name = "write_file"
    /\ call.input = JObj(<<PathField(JStr(path_str(<<T, N>>))), ContentField(JInt(<<"7">>))>>)
    /\ result.is_error
    /\ result.content = <<"missing 'content' parameter">>
    /\ audit # <<>>
    /\ trace = <<>>

\* the name is no built-in and a loaded skill has it as its tool
IsSkillTool(name) == name \notin BuiltinTools /\ handles(skills, name)

\* C17: dispatch goes built-in, then skill, then unknown: a call whose name
\* is the tool of a loaded skill is delegated to the skill runner, and
\* "unknown tool: <name>" is the result only of a name that is neither a
\* built-in nor a skill tool.
C17_SkillDelegated ==
    (call # NoCall /\ result.content # <<>> /\ Head(result.content) = "unknown tool: ") =>
        /\ call.name \notin BuiltinTools
        /\ ~IsSkillTool(call.name)

\* C18: a call whose name is neither a built-in nor a skill tool returns an
\* error result that says "unknown tool", emits no audit event, consults no
\* capability check and does no file or process operation.
C18_UnknownToolInert ==
    [][ (call'.name \notin BuiltinTools /\ ~IsSkillTool(call'.name)) =>
            /\ result'.is_error
            /\ result'.tool_use_id = call'.tool_use_id
            /\ result'.content = <<"unknown tool: ", call'.name>>
            /\ cap_query'.op = "none"
            /\ trace' = <<>>
            /\ audit' = audit
            /\ fs' = fs
            /\ procs' = procs ]_vars

\* an unknown tool called after an audited call
C18_Witness ==
    /\ call.name = "nonexistent_tool"
    /\ result.is_error
    /\ result.content = <<"unknown tool: ", "nonexistent_tool">>
    /\ audit # <<>>
    /\ trace = <<>>

\* ------------------------------------------------------------------------
\* llm/provider.rs: content blocks, messages, responses
\* ------------------------------------------------------------------------

TextBlock(text) == [type |-> "text", text |-> text]

ToolUse(id, name, input) == [type |-> "tool_use", id |-> id, name |-> name, input |-> input]

Message(role, content) == [role |-> role, content |-> content]

LlmResponse(stop_reason, content) == [stop_reason |-> stop_reason, content |-> content]

\* ------------------------------------------------------------------------
\* main.rs / app.rs: the supervisor loop and run_agent_turn
\* ------------------------------------------------------------------------

\* rounds of run_agent_turn's loop; the program runs 10 (app.rs line 18,
\* main.rs line 22), the model a small number of them
MAX_TOOL_ROUNDS == 2

\* history entries kept by the trim; the program keeps 40 (app.rs line 19,
\* main.rs line 23), the model few enough for the trim to happen, and more
\* than one message can add, as in the program
MAX_HISTORY_MESSAGES == 6

\* inbound messages after which the supervisor specification stops polling
MaxMessages == 2

Chats == {1}

Users == {1, 2}

\* str::trim: leading and trailing whitespace is removed
RECURSIVE trim_start(_)
trim_start(s) == IF s # <<>> /\ Head(s) \in Whitespace THEN trim_start(Tail(s)) ELSE s

RECURSIVE trim_end(_)
trim_end(s) == IF s # <<>> /\ Last(s) \in Whitespace THEN trim_end(Front(s)) ELSE s

trim(s) == trim_end(trim_start(s))

\* faulty variant: the test for an empty allowlist is inverted
is_authorized_when_listed(allowed_users, from_id) ==
    ~(allowed_users = <<>> /\ ~InList(from_id, allowed_users))

\* the authorization test of the supervisor loop
is_authorized(allowed_users, from_id) ==
    ~(allowed_users # <<>> /\ ~InList(from_id, allowed_users))

\* faulty variant: the newest entries are dropped, not the oldest
trim_history_truncating(history) ==
    IF Len(history) > MAX_HISTORY_MESSAGES
        THEN SubSeq(history, 1, MAX_HISTORY_MESSAGES)
    ELSE history

\* faulty variant: the drain count is one short
trim_history_keeping_one_more(history) ==
    IF Len(history) > MAX_HISTORY_MESSAGES
        THEN SubSeq(history, Len(history) - MAX_HISTORY_MESSAGES, Len(history))
    ELSE history

\* the trim after run_agent_turn: drain(..len - MAX_HISTORY_MESSAGES)
trim_history(history) ==
    IF Len(history) > MAX_HISTORY_MESSAGES
        THEN SubSeq(history, Len(history) - MAX_HISTORY_MESSAGES + 1, Len(history))
    ELSE history

\* faulty variant: the block at position from itself is skipped
next_tool_use_after(content, from) ==
    IF \E i \in (from + 1)..Len(content) : content[i].type = "tool_use"
        THEN CHOOSE i \in (from + 1)..Len(content) :
                /\ content[i].type = "tool_use"
                /\ \A j \in (from + 1)..(i - 1) : content[j].type # "tool_use"
    ELSE 0

\* the first tool-use block of content at or after position from, 0 if none:
\* where `for block in &api_resp.content` next executes a tool
next_tool_use(content, from) ==
    IF \E i \in from..Len(content) : content[i].type = "tool_use"
        THEN CHOOSE i \in from..Len(content) :
                /\ content[i].type = "tool_use"
                /\ \A j \in from..(i - 1) : content[j].type # "tool_use"
    ELSE 0

\* history.push on the conversation of a chat (entry(..).or_default())
push(convs, chat_id, message) ==
    (chat_id :> Append(IF chat_id \in DOMAIN convs THEN convs[chat_id] ELSE <<>>, message))
        @@ convs

\* faulty variant: the entry is left where it is
remove_nothing(convs, chat_id) == convs

\* conversations.remove(&chat_id)
remove(convs, chat_id) == [c \in DOMAIN convs \ {chat_id} |-> convs[c]]

\* the texts of the text blocks of a content, in order
RECURSIVE text_parts(_)
text_parts(content) ==
    IF content = <<>> THEN <<>>
    ELSE IF Head(content).type = "text"
        THEN <<Head(content).text>> \o text_parts(Tail(content))
    ELSE text_parts(Tail(content))

\* parts.join("\n")
RECURSIVE join_parts(_)
join_parts(parts) ==
    IF Len(parts) = 1 THEN parts[1]
    ELSE join_parts(Front(parts)) \o <<"\n">> \o Last(parts)

\* the reply text of a response: its text blocks joined by newlines
extract_text(content) ==
    IF text_parts(content) = <<>> THEN <<"(no text response)">>
    ELSE join_parts(text_parts(content))

\* a call of send_message: the chat and the text
send_message(chat_id, text) == [chat_id |-> chat_id, text |-> text]

\* the Err arm after run_agent_turn: the error is sent to the chat
error_reply(sent_so_far, chat_id, returned_by_turn) ==
    IF returned_by_turn = "ok" THEN sent_so_far
    ELSE Append(sent_so_far, send_message(chat_id, <<"Error: ", returned_by_turn>>))

\* faulty variant: the loop runs one round more than MAX_TOOL_ROUNDS
pc_after_round_inclusive(rounds_done) ==
    IF rounds_done <= MAX_TOOL_ROUNDS THEN "llm" ELSE "trim"

\* the state run_agent_turn is in after a tool-use round: the next round,
\* or the exit of the loop with "max tool rounds exceeded"
pc_after_round(rounds_done) == IF rounds_done < MAX_TOOL_ROUNDS THEN "llm" ELSE "trim"

result_after_round(rounds_done) ==
    IF rounds_done < MAX_TOOL_ROUNDS THEN "running" ELSE "max tool rounds exceeded"

\* ------------------------------------------------------------------------
\* Inputs of the supervisor: inbound messages and LLM responses
\* ------------------------------------------------------------------------

MessageTexts == { <<"h", "i">>, <<"/clear">>, <<" ", "/clear", " ">> }

InboundMessages ==
    { [chat_id |-> c, from_id |-> u, text |-> t] :
        c \in Chats, u \in Users, t \in MessageTexts }

\* a command the policy denies
UseDenied == ToolUse("tu_1", "run_command", JObj(<<CommandField(JStr(<<"r">>))>>))

\* a tool the executor does not know, under an id already used
UseUnknown == ToolUse("tu_1", "nonexistent_tool", JNull)

\* a write without its content
UseBadParam ==
    ToolUse("tu_2", "write_file", JObj(<<PathField(JStr(path_str(<<T, N>>)))>>))

\* a read the policy allows; the operating system decides whether it works
UseRead == ToolUse("tu_3", "read_file", JObj(<<PathField(JStr(path_str(<<T, X>>)))>>))

Hello == TextBlock(<<"o", "k">>)

\* what the provider can answer: every stop reason, with and without
\* tool-use blocks in the content
LlmResponses ==
    { LlmResponse("end_turn", <<Hello>>),
      LlmResponse("max_tokens", <<Hello, UseRead>>),
      LlmResponse("other", <<>>),
      LlmResponse("tool_use", <<Hello>>),
      LlmResponse("tool_use", <<UseDenied, Hello, UseUnknown, UseBadParam, UseRead>>) }

TurnPolicy == Policy(<<path_str(<<T>>)>>, <<path_str(<<T>>)>>, <<<<"l">>>>)

NumReceived ==
    Cardinality({ i \in 1..Len(audit) : audit[i].event = "message_received" })

execVars == <<procs, call, env, result, trace>>

roundVars == <<round, api_resp, tool_idx, tool_results, turn_result>>

\* ------------------------------------------------------------------------
\* Specification of the supervisor loop with run_agent_turn
\* ------------------------------------------------------------------------

InitTurnSpec ==
    /\ caps = TurnPolicy
    /\ fs = FS0
    /\ InitCapQuery
    /\ InitTool
    /\ telegram_allowed_users = <<1>>
    /\ InitTurn
    /\ InitProc
    /\ InitSys

\* a message of a user who is not allowed: logged twice, answered with
\* "Unauthorized.", then dropped
ReceiveUnauthorized ==
    /\ pc = "poll" /\ NumReceived < MaxMessages
    /\ \E m \in InboundMessages :
        /\ ~is_authorized(telegram_allowed_users, m.from_id)
        /\ audit' = audit \o <<MessageReceived(m.chat_id, m.from_id),
                                UnauthorizedUser(m.from_id)>>
        /\ msg' = m
        /\ sent' = <<send_message(m.chat_id, <<"Unauthorized.">>)>>
    /\ UNCHANGED <<sysVars, procVars, envVars, capVars, execVars, telegram_allowed_users, conversations,
                   pc, roundVars>>

\* "/clear": the conversation of the chat is removed and the chat is told so
ReceiveClear ==
    /\ pc = "poll" /\ NumReceived < MaxMessages
    /\ \E m \in InboundMessages :
        /\ is_authorized(telegram_allowed_users, m.from_id)
        /\ trim(m.text) = <<"/clear">>
        /\ audit' = Append(audit, MessageReceived(m.chat_id, m.from_id))
        /\ conversations' = remove(conversations, m.chat_id)
        /\ msg' = m
        /\ sent' = <<send_message(m.chat_id, <<"Conversation cleared.">>)>>
    /\ UNCHANGED <<sysVars, procVars, envVars, capVars, execVars, telegram_allowed_users, pc, roundVars>>

\* any other message: pushed as a user turn, and run_agent_turn is entered
ReceiveMessage ==
    /\ pc = "poll" /\ NumReceived < MaxMessages
    /\ \E m \in InboundMessages :
        /\ is_authorized(telegram_allowed_users, m.from_id)
        /\ trim(m.text) # <<"/clear">>
        /\ audit' = Append(audit, MessageReceived(m.chat_id, m.from_id))
        /\ conversations' = push(conversations, m.chat_id,
                                 Message("user", <<TextBlock(m.text)>>))
        /\ msg' = m
    /\ sent' = <<>>
    /\ round' = 0
    /\ api_resp' = NoResponse
    /\ tool_idx' = 0
    /\ tool_results' = <<>>
    /\ turn_result' = "running"
    /\ pc' = "llm"
    /\ UNCHANGED <<sysVars, procVars, envVars, capVars, execVars, telegram_allowed_users>>

\* the provider call fails, at once or on the retry after a rate limit:
\* run_agent_turn returns the error and the history keeps its last entry
LlmFails ==
    /\ pc = "llm"
    /\ turn_result' = "LLM API error"
    /\ pc' = "trim"
    /\ UNCHANGED <<sysVars, procVars, envVars, capVars, toolVars, telegram_allowed_users, conversations,
                   msg, round, api_resp, tool_idx, tool_results, sent>>

\* a response with stop reason end_turn or max_tokens: pushed, turn returns
\* Ok; its text is sent with send_message unless a message streamed during
\* the call exists, which is edited instead
RoundEndTurn ==
    /\ pc = "llm"
    /\ \E resp \in LlmResponses :
        /\ resp.stop_reason \in {"end_turn", "max_tokens"}
        /\ api_resp' = resp
        /\ conversations' = push(conversations, msg.chat_id,
                                 Message("assistant", resp.content))
        /\ \E streamed \in BOOLEAN :
            sent' = IF streamed THEN sent
                    ELSE Append(sent, send_message(msg.chat_id, extract_text(resp.content)))
    /\ turn_result' = "ok"
    /\ pc' = "trim"
    /\ UNCHANGED <<sysVars, procVars, envVars, capVars, toolVars, telegram_allowed_users,
                   msg, round, tool_idx, tool_results>>

\* a response with any other stop reason: pushed, turn returns the error
RoundOther ==
    /\ pc = "llm"
    /\ \E resp \in LlmResponses :
        /\ resp.stop_reason = "other"
        /\ api_resp' = resp
        /\ conversations' = push(conversations, msg.chat_id,
                                 Message("assistant", resp.content))
    /\ turn_result' = "unexpected stop reason"
    /\ pc' = "trim"
    /\ UNCHANGED <<sysVars, procVars, envVars, capVars, toolVars, telegram_allowed_users,
                   msg, round, tool_idx, tool_results, sent>>

\* a response with stop reason tool_use: pushed; the tool loop starts at the
\* first tool-use block, and with no such block the round is over at once,
\* nothing more being pushed
RoundToolUse ==
    /\ pc = "llm"
    /\ \E resp \in LlmResponses :
        /\ resp.stop_reason = "tool_use"
        /\ api_resp' = resp
        /\ conversations' = push(conversations, msg.chat_id,
                                 Message("assistant", resp.content))
        /\ tool_results' = <<>>
        /\ tool_idx' = next_tool_use(resp.content, 1)
        /\ IF tool_idx' # 0
              THEN pc' = "tool" /\ UNCHANGED <<round, turn_result>>
           ELSE /\ round' = round + 1
                /\ pc' = pc_after_round(round')
                /\ turn_result' = result_after_round(round')
    /\ UNCHANGED <<sysVars, procVars, envVars, capVars, toolVars, telegram_allowed_users, msg, sent>>

\* the tool loop executes the tool-use block it is at; after the last one
\* the results are pushed as one user turn and the round is over
ToolStep ==
    /\ pc = "tool"
    /\ LET block == api_resp.content[tool_idx]
           following == next_tool_use(api_resp.content, tool_idx + 1)
       IN /\ \E oc \in OutcomesOf(fs, block.name, block.input) \cup {NoOutcome} :
                Invoke(block.id, block.name, block.input, oc)
          /\ tool_results' = Append(tool_results, result')
          /\ tool_idx' = following
          /\ IF following # 0
                THEN UNCHANGED <<conversations, round, pc, turn_result>>
             ELSE /\ conversations' = push(conversations, msg.chat_id,
                                           Message("user", tool_results'))
                  /\ round' = round + 1
                  /\ pc' = pc_after_round(round')
                  /\ turn_result' = result_after_round(round')
    /\ UNCHANGED <<telegram_allowed_users, msg, api_resp, sent>>

\* run_agent_turn has returned: an error is sent to the chat, the history is
\* trimmed and the supervisor polls again
Trim ==
    /\ pc = "trim"
    /\ sent' = error_reply(sent, msg.chat_id, turn_result)
    /\ conversations' = [conversations EXCEPT ![msg.chat_id] = trim_history(@)]
    /\ pc' = "poll"
    /\ UNCHANGED <<sysVars, procVars, envVars, capVars, toolVars, telegram_allowed_users, msg, roundVars>>

NextTurn ==
    \/ ReceiveUnauthorized
    \/ ReceiveClear
    \/ ReceiveMessage
    \/ LlmFails
    \/ RoundEndTurn
    \/ RoundOther
    \/ RoundToolUse
    \/ ToolStep
    \/ Trim

SpecTurn == InitTurnSpec /\ [][NextTurn]_vars

\* ------------------------------------------------------------------------
\* Claims about the agent turn loop and the stored history
\* ------------------------------------------------------------------------

IsToolUse(block) == block.type = "tool_use"

\* the ids of the tool-use blocks of a content, in the order of the blocks
ToolUseIds(content) ==
    LET uses == SelectSeq(content, IsToolUse) IN [i \in 1..Len(uses) |-> uses[i].id]

\* the ids the tool-result blocks of a content are bound to, in order
ResultIds(content) == [i \in 1..Len(content) |-> content[i].tool_use_id]

\* a turn made of tool-result blocks only
IsResultContent(content) == \A i \in 1..Len(content) : content[i].type = "tool_result"

\* the history of the chat whose message is being handled
History == conversations[msg.chat_id]

\* the invocation last executed failed: unknown tool, bad parameter, denial,
\* operation failure, timeout, non-zero exit
InvocationFailed ==
    \/ call.name \notin BuiltinTools
    \/ BadParam(call)
    \/ CheckDenied
    \/ env.kind \in {"io_error", "spawn_error", "wait_error", "timeout"}
    \/ (env.kind = "exit" /\ env.code # 0)

ResultsFollow(history, content) ==
    /\ Len(history) >= 2
    /\ history[Len(history) - 1] = Message("assistant", content)
    /\ Last(history).role = "user"
    /\ IsResultContent(Last(history).content)
    /\ ResultIds(Last(history).content) = ToolUseIds(content)

\* run_agent_turn is between rounds, or has returned, after a response with
\* stop reason tool_use
AfterToolUseRound == pc \in {"llm", "trim"} /\ api_resp.stop_reason = "tool_use"

IsResultTurn(message) ==
    message.role = "user" /\ message.content # <<>> /\ IsResultContent(message.content)

HasToolUse(message) == message.role = "assistant" /\ ToolUseIds(message.content) # <<>>

\* every assistant turn with a tool-use block is directly followed by a turn
\* of tool results covering its ids, and every turn of tool results directly
\* follows an assistant turn with a tool-use block
WellPaired(history) ==
    \A i \in 1..Len(history) :
        /\ HasToolUse(history[i]) =>
            /\ i < Len(history)
            /\ IsResultTurn(history[i + 1])
            /\ \A k \in 1..Len(ToolUseIds(history[i].content)) :
                    InList(ToolUseIds(history[i].content)[k],
                           ResultIds(history[i + 1].content))
        /\ IsResultTurn(history[i]) => (i > 1 /\ HasToolUse(history[i - 1]))

\* C9: between inbound messages, in every stored history, every assistant
\* turn with a tool-use block is immediately followed by one user turn of
\* tool results covering its tool-use ids, and no tool-result turn is
\* without its assistant tool-use turn directly before it.
C9_HistoryPaired ==
    pc = "poll" => \A c \in DOMAIN conversations : WellPaired(conversations[c])

\* C10: after the supervisor has finished handling an inbound message (turn
\* returned with success or error, then the trim), the history of every
\* conversation has at most MAX_HISTORY_MESSAGES entries.
C10_HistoryBounded ==
    pc = "poll" => \A c \in DOMAIN conversations :
                        Len(conversations[c]) <= MAX_HISTORY_MESSAGES

\* a message has been handled whose history the trim has cut to the bound:
\* it no longer starts with the text turn of a user
C10_Witness ==
    /\ pc = "poll"
    /\ \E c \in DOMAIN conversations :
        /\ Len(conversations[c]) = MAX_HISTORY_MESSAGES
        /\ ~(conversations[c][1].role = "user" /\ ~IsResultTurn(conversations[c][1]))

\* the step is the trim after a turn
Trimming == pc = "trim" /\ pc' = "poll"

\* C32: the trim leaves a history within MAX_HISTORY_MESSAGES unchanged and
\* cuts a longer one to its last MAX_HISTORY_MESSAGES entries, in their
\* order; no other conversation is touched.
C32_TrimKeepsNewest ==
    [][Trimming =>
        LET before == conversations[msg.chat_id]
            after == conversations'[msg.chat_id]
            dropped == Len(before) - MAX_HISTORY_MESSAGES
        IN /\ DOMAIN conversations' = DOMAIN conversations
           /\ \A c \in DOMAIN conversations \ {msg.chat_id} :
                    conversations'[c] = conversations[c]
           /\ dropped <= 0 => after = before
           /\ dropped > 0 =>
                /\ Len(after) = MAX_HISTORY_MESSAGES
                /\ \A k \in 1..MAX_HISTORY_MESSAGES : after[k] = before[dropped + k]]_vars

\* a turn that used up its rounds was trimmed: the history is at the bound
\* and ends with the tool results of the last round
C32_Witness ==
    /\ pc = "poll" /\ turn_result = "max tool rounds exceeded"
    /\ msg.chat_id \in DOMAIN conversations
    /\ Len(conversations[msg.chat_id]) = MAX_HISTORY_MESSAGES
    /\ IsResultContent(Last(conversations[msg.chat_id]).content)

\* ------------------------------------------------------------------------
\* Claims about the messages the supervisor loop receives
\* ------------------------------------------------------------------------

\* the step takes an inbound message from the connector: msg' is the message
Received == NumReceived' = NumReceived + 1

\* neither the provider nor the tool executor is called in the step
NoCallMade ==
    /\ pc' = "poll"
    /\ api_resp' = api_resp
    /\ round' = round
    /\ UNCHANGED <<sysVars, execVars, capVars, envVars>>

\* C19: a message of a sender who is not in the non-empty allowlist,
\* whatever its text, gets exactly one unauthorized-user audit event and the
\* reply "Unauthorized."; no history is created, changed or deleted, the
\* provider is not called and no tool is executed.
C19_UnauthorizedInert ==
    [][ (/\ Received
         /\ telegram_allowed_users # <<>>
         /\ ~InList(msg'.from_id, telegram_allowed_users)) =>
            /\ audit' = audit \o <<MessageReceived(msg'.chat_id, msg'.from_id),
                                    UnauthorizedUser(msg'.from_id)>>
            /\ sent' = <<[chat_id |-> msg'.chat_id, text |-> <<"Unauthorized.">>]>>
            /\ conversations' = conversations
            /\ NoCallMade ]_vars

\* a "/clear" of a sender who is not allowed, in a chat that has a history
C19_Witness ==
    /\ pc = "poll"
    /\ msg.from_id = 2
    /\ trim(msg.text) = <<"/clear">>
    /\ Last(audit) = UnauthorizedUser(2)
    /\ msg.chat_id \in DOMAIN conversations
    /\ Len(conversations[msg.chat_id]) >= 2

\* the sender of the message is allowed to talk to the agent
FromAllowed(m) == telegram_allowed_users = <<>> \/ InList(m.from_id, telegram_allowed_users)

\* C20: an authorized "/clear" deletes the entry of its conversation,
\* whatever the history was, appends nothing to any history and calls no
\* provider; and a message arriving for a conversation that has no entry,
\* be it new or cleared, enters run_agent_turn with a history that is that
\* message alone.
C20_ClearIsFresh ==
    /\ [][ (Received /\ FromAllowed(msg') /\ trim(msg'.text) = <<"/clear">>) =>
                /\ DOMAIN conversations' = DOMAIN conversations \ {msg'.chat_id}
                /\ \A c \in DOMAIN conversations' : conversations'[c] = conversations[c]
                /\ NoCallMade ]_vars
    /\ [][ (/\ Received /\ FromAllowed(msg') /\ trim(msg'.text) # <<"/clear">>
             /\ msg'.chat_id \notin DOMAIN conversations) =>
                /\ conversations'[msg'.chat_id] = <<Message("user", <<TextBlock(msg'.text)>>)>>
                /\ pc' = "llm"
                /\ round' = 0 ]_vars

\* a "/clear" has removed a conversation that a whole turn had filled
C20_Witness ==
    /\ pc = "poll"
    /\ msg.from_id = 1
    /\ trim(msg.text) = <<"/clear">>
    /\ msg.chat_id \notin DOMAIN conversations
    /\ turn_result = "ok"
    /\ sent = <<[chat_id |-> msg.chat_id, text |-> <<"Conversation cleared.">>]>>

\* ------------------------------------------------------------------------
\* Claims about the round budget of run_agent_turn
\* ------------------------------------------------------------------------

\* the position in a history of the inbound message last pushed: the last
\* user turn that is not made of tool results
TurnStart(history) ==
    CHOOSE i \in 1..Len(history) :
        /\ history[i].role = "user" /\ ~IsResultContent(history[i].content)
        /\ \A j \in (i + 1)..Len(history) :
                history[j].role = "user" => IsResultContent(history[j].content)

\* the provider responses the running turn has pushed: its rounds so far
LlmRounds(history) ==
    Cardinality({ i \in (TurnStart(history) + 1)..Len(history) :
                    history[i].role = "assistant" })

\* C11: run_agent_turn returns after at most MAX_TOOL_ROUNDS rounds when
\* every provider call and every tool execution returns: a provider call
\* that returns ends the turn or adds one round, no more than
\* MAX_TOOL_ROUNDS rounds are added, and a tool execution that returns
\* moves the tool loop forward in the response or ends the round. The turn
\* returns Ok at the first round whose stop reason is end_turn or
\* max_tokens, and it returns "max tool rounds exceeded" exactly when
\* MAX_TOOL_ROUNDS rounds were run and ended with stop reason tool_use.
C11_RoundBudget ==
    /\ [](pc \in {"llm", "tool", "trim"} =>
            /\ LlmRounds(History) <= MAX_TOOL_ROUNDS
            /\ pc = "llm" => LlmRounds(History) < MAX_TOOL_ROUNDS
            /\ pc = "trim" =>
                /\ turn_result = "ok" <=> api_resp.stop_reason \in {"end_turn", "max_tokens"}
                /\ turn_result = "max tool rounds exceeded" <=>
                        /\ LlmRounds(History) = MAX_TOOL_ROUNDS
                        /\ api_resp.stop_reason = "tool_use")
    /\ [][(pc = "llm" /\ api_resp'.stop_reason \in {"end_turn", "max_tokens"}) =>
            (pc' = "trim" /\ turn_result' = "ok")]_vars
    /\ [][(pc \in {"llm", "tool"} /\ pc' \in {"llm", "tool"}) =>
            api_resp'.stop_reason = "tool_use"]_vars
    /\ [][pc = "llm" =>
            \/ pc' = "trim"
            \/ LlmRounds(History') = LlmRounds(History) + 1]_vars
    /\ [][pc = "tool" =>
            /\ LlmRounds(History') = LlmRounds(History)
            /\ \/ pc' = "tool" /\ tool_idx < tool_idx' /\ tool_idx' <= Len(api_resp.content)
               \/ pc' \in {"llm", "trim"}]_vars

\* a turn that used up its rounds with tool calls and returned the error
C11_Witness ==
    /\ pc = "trim"
    /\ turn_result = "max tool rounds exceeded"
    /\ LlmRounds(History) = MAX_TOOL_ROUNDS
    /\ result # NoResult

\* ------------------------------------------------------------------------
\* Child processes: what a spawned child and its descendants may do while
\* the parent waits for it
\* ------------------------------------------------------------------------

\* polls of a wait loop per second of timeout; the program sleeps 100 ms
\* between polls (agent/tools.rs line 369, skills/ipc.rs line 63), ten to the
\* second, the model fewer
PollsPerSecond == 2

\* ToolExecutor.command_timeout, in seconds
command_timeout_secs == 1

\* a Duration of whole seconds, in poll intervals
from_secs(secs) == secs * PollsPerSecond

\* how long the model lets a blocked parent stay blocked
MaxElapsed == from_secs(command_timeout_secs) + 3

\* Command::spawn succeeded: a running child with its pipes
Spawned(kind, stdin) ==
    [NoChild EXCEPT !.state = "running", !.kind = kind, !.stdin = stdin]

\* try_wait found the child exited: its status is collected
reap(c) == [c EXCEPT !.state = "reaped"]

\* child.kill() followed by child.wait(): the child is signalled if it still
\* runs, the parent's end of its stdin is closed, its status is collected
kill(c) ==
    IF c.state = "none" THEN c
    ELSE [c EXCEPT !.state = "reaped", !.killed = (c.killed \/ c.state = "running"),
                   !.stdin = IF c.stdin = "none" THEN "none" ELSE "closed"]

\* what a command writes before it exits
ExitCodes == {0, 1}

ChildStdout == { <<>>, <<"o">> }

ChildStderr == { <<>>, <<"e">> }

\* when a child of a kind may exit: a command at any time; a skill that
\* reads one request line once the line is there; a skill that reads its
\* input to the end once its stdin is closed; a skill that reads nothing at
\* any time
may_exit(c) ==
    /\ c.state = "running"
    /\ c.kind = "reads_line" => c.written # <<>>
    /\ c.kind = "reads_to_eof" => c.stdin = "closed"

\* the child of a run_command exits, with some status and output; a
\* descendant it started may keep its output pipes open
CommandExits ==
    /\ child.kind = "command" /\ may_exit(child)
    /\ \E code \in ExitCodes, out \in ChildStdout, err \in ChildStderr, held \in BOOLEAN :
        child' = [child EXCEPT !.state = "zombie", !.code = code, !.stdout = out,
                               !.stderr = err, !.held = held]
    /\ UNCHANGED <<sysVars, envVars, capVars, toolVars, turnVars, elapsed, step, outcome>>

\* the descendant holding the pipes exits, or closes them
DescendantExits ==
    /\ child.held
    /\ child' = [child EXCEPT !.held = FALSE]
    /\ UNCHANGED <<sysVars, envVars, capVars, toolVars, turnVars, elapsed, step, outcome>>

\* ------------------------------------------------------------------------
\* agent/tools.rs: exec_run_command from the spawn on, step by step
\* ------------------------------------------------------------------------

RunCommand == <<"l">>

\* the Result of exec_run_command for what the operating system did
run_result(oc) ==
    [ok |-> run(FS0, RunCommand, <<>>, oc).ok, text |-> run(FS0, RunCommand, <<>>, oc).text]

\* Command::new(command).spawn(): the child runs, or the spawn fails
RunSpawn ==
    /\ step = "idle"
    /\ \/ /\ child' = Spawned("command", "none")
          /\ elapsed' = 0
          /\ step' = "run_wait"
          /\ UNCHANGED outcome
       \/ /\ outcome' = run_result(SpawnError)
          /\ step' = "done"
          /\ UNCHANGED <<child, elapsed>>
    /\ UNCHANGED <<sysVars, envVars, capVars, toolVars, turnVars>>

\* one turn of the wait loop: try_wait, then the timeout test
RunPoll ==
    /\ step = "run_wait"
    /\ \/ /\ child.state = "zombie"
          /\ child' = reap(child)
          /\ step' = "run_read"
          /\ UNCHANGED outcome
       \/ /\ child.state = "running" /\ elapsed >= from_secs(command_timeout_secs)
          /\ child' = kill(child)
          /\ outcome' = run_result(TimedOut)
          /\ step' = "done"
       \/ /\ child.state = "running" /\ elapsed < from_secs(command_timeout_secs)
          /\ step' = "run_sleep"
          /\ UNCHANGED <<child, outcome>>
       \/ /\ outcome' = run_result(WaitError)
          /\ step' = "done"
          /\ UNCHANGED child
    /\ UNCHANGED <<sysVars, envVars, capVars, toolVars, turnVars, elapsed>>

\* thread::sleep(100 ms): one poll interval passes
RunSleep ==
    /\ step = "run_sleep"
    /\ elapsed' = elapsed + 1
    /\ step' = "run_wait"
    /\ UNCHANGED <<sysVars, envVars, capVars, toolVars, turnVars, child, outcome>>

\* read_to_end on the child's stdout and stderr: both return at end of
\* file, which comes when no process holds the pipes any more
RunRead ==
    /\ step = "run_read" /\ ~child.held
    /\ outcome' = run_result(Exited(child.code, child.stdout, child.stderr))
    /\ step' = "done"
    /\ UNCHANGED <<sysVars, envVars, capVars, toolVars, turnVars, child, elapsed>>

\* read_to_end blocked on a pipe a descendant holds: time passes
RunBlocked ==
    /\ step = "run_read" /\ child.held /\ elapsed < MaxElapsed
    /\ elapsed' = elapsed + 1
    /\ UNCHANGED <<sysVars, envVars, capVars, toolVars, turnVars, child, step, outcome>>

InitRun ==
    /\ caps = Policy(<<>>, <<>>, <<RunCommand>>)
    /\ fs = FS0
    /\ InitCapQuery
    /\ InitTool
    /\ telegram_allowed_users = <<>>
    /\ InitTurn
    /\ InitProc
    /\ InitSys

NextRun ==
    \/ RunSpawn
    \/ CommandExits
    \/ DescendantExits
    \/ RunPoll
    \/ RunSleep
    \/ RunRead
    \/ RunBlocked

SpecRun == InitRun /\ [][NextRun]_vars

\* C12: run_command returns within the timeout plus one poll interval,
\* whatever the child does; when it returns because of the timeout the child
\* has been killed and reaped and the error text contains "timed out".
C12_ReturnsInTime ==
    /\ elapsed <= from_secs(command_timeout_secs) + 1
    /\ (step = "done" /\ child.killed) =>
            /\ child.state = "reaped"
            /\ ~outcome.ok
            /\ \E i \in 1..Len(outcome.text) : outcome.text[i] = "' timed out after "

\* ------------------------------------------------------------------------
\* skills/ipc.rs: the request written to a skill and the reading of its
\* response
\* ------------------------------------------------------------------------

ok_string(s) == [ok |-> TRUE, text |-> s]

err_string(s) == [ok |-> FALSE, text |-> s]

\* u64 shown by {}: its decimal digits
RECURSIVE u64_to_string(_)
u64_to_string(n) ==
    IF n < 10 THEN <<SubSeq(<<"0", "1", "2", "3", "4", "5", "6", "7", "8", "9">>, n + 1, n + 1)[1]>>
    ELSE u64_to_string(n \div 10) \o u64_to_string(n % 10)

\* format!("{}\n", json_obj().field("params", params).build().to_json_string())
request_str(params) == to_json_string(JObj(<<Pair(<<"params">>, params)>>)) \o <<"\n">>

\* BufRead::read_line: the bytes up to and including the first newline, or
\* all of them when there is none
RECURSIVE read_line(_)
read_line(bytes) ==
    IF bytes = <<>> THEN <<>>
    ELSE IF Head(bytes) = "\n" THEN <<"\n">>
    ELSE <<Head(bytes)>> \o read_line(Tail(bytes))

\* faulty variant: the result field is looked at before the error field
fields_result_first(response_line, json_val) ==
    IF get(json_val, <<"result">>).some
        THEN (IF get(json_val, <<"result">>).v.t = "string"
                THEN ok_string(get(json_val, <<"result">>).v.s)
              ELSE ok_string(to_json_string(get(json_val, <<"result">>).v)))
    ELSE IF get_str(json_val, <<"error">>).some
        THEN err_string(<<"skill error: ">> \o get_str(json_val, <<"error">>).v)
    ELSE ok_string(response_line)

\* the error field, then the result field, then the line itself
fields(response_line, json_val) ==
    IF get_str(json_val, <<"error">>).some
        THEN err_string(<<"skill error: ">> \o get_str(json_val, <<"error">>).v)
    ELSE IF get(json_val, <<"result">>).some
        THEN (IF get(json_val, <<"result">>).v.t = "string"
                THEN ok_string(get(json_val, <<"result">>).v.s)
              ELSE ok_string(to_json_string(get(json_val, <<"result">>).v)))
    ELSE ok_string(response_line)

\* json::parse(response_line), its error mapped to the invocation's error
parsed(response_line, r) ==
    IF r.ok THEN fields(response_line, r.v)
    ELSE err_string(<<"skill response is not valid JSON: ">>)

\* the trimmed line: nothing, or something to parse
trimmed(response_line) ==
    IF response_line = <<>> THEN err_string(<<"skill produced no output">>)
    ELSE parsed(response_line, parse(response_line))

\* the tail of invoke_skill, from the read of stdout on
response(stdout) == trimmed(trim(read_line(stdout)))

\* the error of a wait loop that ran out of time
timed_out_error(timeout_secs) ==
    err_string(<<"skill timed out after ">> \o u64_to_string(timeout_secs) \o <<"s">>)

\* ------------------------------------------------------------------------
\* skills/mod.rs, skills/sandbox.rs, skills/ipc.rs: one skill invocation,
\* step by step. A skill binary is known by what it does with its standard
\* input.
\* ------------------------------------------------------------------------

\* SkillRunner.skill_timeout, in seconds
skill_timeout == 1

SkillToolNames == { skills[i].tool_name : i \in 1..Len(skills) } \cup {"nonexistent_tool"}

SkillInputs == { JObj(<<>>), JObj(<<Pair(<<"text">>, JStr(<<"h", "i">>))>>) }

\* a response line as a well-behaved skill writes it
Line(v) == to_json_string(v) \o <<"\n">>

ResultField(v) == Pair(<<"result">>, v)

ErrorField(v) == Pair(<<"error">>, v)

GotIt == JStr(<<"got it">>)

Boom == JStr(<<"boom">>)

\* what a skill may have written to its standard output when it exits
SkillOutputs ==
    { <<>>,
      Line(JObj(<<ResultField(GotIt)>>)),
      to_json_string(JObj(<<ResultField(GotIt)>>)),
      Line(JObj(<<ErrorField(Boom)>>)),
      Line(JObj(<<ErrorField(Boom), ResultField(GotIt)>>)),
      Line(JObj(<<ResultField(GotIt), ErrorField(Boom)>>)),
      Line(JObj(<<ErrorField(JInt(<<"7">>)), ResultField(GotIt)>>)),
      Line(JObj(<<ErrorField(JNull)>>)),
      Line(JObj(<<ResultField(JArr(<<JInt(<<"1">>), JObj(<<Pair(<<"a">>, JNull)>>)>>))>>)),
      <<" ", "{", "\"", "result", "\"", " ", ":", " ", "7", " ", "}", " ", "\n">>,
      <<" ", "[", "1", ",", " ", "2", "]", " ", "\n">>,
      <<"o", "o", "p", "s", "\n">>,
      <<"\n">> \o Line(JObj(<<ResultField(GotIt)>>)),
      Line(JObj(<<ResultField(GotIt)>>)) \o Line(JObj(<<ErrorField(Boom)>>)) }

\* drop(process.stdin().take()): take() empties the Option that stdin()
\* returned, a temporary holding a reference; the reference is dropped, the
\* ChildStdin stays in the Child and the pipe stays open
take_stdin(c) == c

\* faulty variant: a process that is dropped is left as it is
drop_without_cleanup(c) == c

\* Drop for SandboxedProcess
drop_process(c) == kill(c)

\* faulty variant: the timeout has to be exceeded
expired_late(el, timeout_secs) == el > from_secs(timeout_secs)

\* start.elapsed() >= timeout
expired(el, timeout_secs) == el >= from_secs(timeout_secs)

\* the skill exits, having written what it had to say
SkillExits ==
    /\ child.kind \in {"reads_line", "reads_to_eof", "ignores_stdin"} /\ may_exit(child)
    /\ \E code \in ExitCodes, out \in SkillOutputs :
        child' = [child EXCEPT !.state = "zombie", !.code = code, !.stdout = out]
    /\ UNCHANGED <<sysVars, envVars, capVars, toolVars, turnVars, elapsed, step, outcome>>

\* SkillRunner::execute up to the spawn: the skill is looked up, the
\* invocation is audited, the binary is spawned
SkillStart ==
    /\ step = "idle"
    /\ \E tool_name \in SkillToolNames, input \in SkillInputs :
        /\ call' = [tool_use_id |-> "", name |-> tool_name, input |-> input]
        /\ IF ~find_skill(skills, tool_name).some
            THEN /\ outcome' = err_string(<<"unknown skill tool: ", tool_name>>)
                 /\ step' = "done"
                 /\ UNCHANGED <<audit, child>>
           ELSE /\ audit' = Append(audit, ToolCallAllowed(<<"skill:", tool_name>>,
                                                          to_json_string(input)))
                /\ \/ /\ child' = Spawned(find_skill(skills, tool_name).v.binary_path, "open")
                      /\ step' = "skill_write"
                      /\ UNCHANGED outcome
                   \/ /\ outcome' = err_string(<<"failed to spawn skill '">>)
                      /\ step' = "done"
                      /\ UNCHANGED child
    /\ UNCHANGED <<sysVars, envVars, capVars, turnVars, procs, env, result, trace, elapsed>>

\* invoke_skill up to the wait loop: the request is written and flushed, the
\* stdin is "dropped", the clock is started; or the write fails, the pipe
\* having no reader any more
SkillWrite ==
    /\ step = "skill_write"
    /\ \/ /\ child' = take_stdin([child EXCEPT !.written = request_str(call.input)])
          /\ elapsed' = 0
          /\ step' = "skill_wait"
          /\ UNCHANGED outcome
       \/ /\ child.state = "zombie" \/ child.kind = "ignores_stdin"
          /\ outcome' = err_string(<<"failed to write to skill stdin: ">>)
          /\ step' = "skill_drop"
          /\ UNCHANGED <<child, elapsed>>
    /\ UNCHANGED <<sysVars, envVars, capVars, toolVars, turnVars>>

\* one turn of the wait loop. try_wait fails only for a child that has
\* exited and whose status cannot be collected; for a running child it
\* returns Ok(None)
SkillPoll ==
    /\ step = "skill_wait"
    /\ \/ /\ child.state = "zombie"
          /\ child' = reap(child)
          /\ step' = "skill_read"
          /\ UNCHANGED outcome
       \/ /\ child.state = "running" /\ expired(elapsed, skill_timeout)
          /\ child' = kill(child)
          /\ outcome' = timed_out_error(skill_timeout)
          /\ step' = "skill_drop"
       \/ /\ child.state = "running" /\ ~expired(elapsed, skill_timeout)
          /\ step' = "skill_sleep"
          /\ UNCHANGED <<child, outcome>>
       \/ /\ child.state = "zombie"
          /\ child' = kill(child)
          /\ outcome' = err_string(<<"error waiting for skill: ">>)
          /\ step' = "skill_drop"
    /\ UNCHANGED <<sysVars, envVars, capVars, toolVars, turnVars, elapsed>>

\* thread::sleep(100 ms)
SkillSleep ==
    /\ step = "skill_sleep"
    /\ elapsed' = elapsed + 1
    /\ step' = "skill_wait"
    /\ UNCHANGED <<sysVars, envVars, capVars, toolVars, turnVars, child, outcome>>

\* the first line of stdout is read and made into the result; read_line
\* fails on bytes that are not UTF-8
SkillRead ==
    /\ step = "skill_read"
    /\ \/ outcome' = response(child.stdout)
       \/ outcome' = err_string(<<"failed to read skill response: ">>)
    /\ step' = "skill_drop"
    /\ UNCHANGED <<sysVars, envVars, capVars, toolVars, turnVars, child, elapsed>>

\* SkillRunner::execute returns: the process goes out of scope
SkillReturn ==
    /\ step = "skill_drop"
    /\ child' = drop_process(child)
    /\ step' = "done"
    /\ UNCHANGED <<sysVars, envVars, capVars, toolVars, turnVars, elapsed, outcome>>

InitSkill ==
    /\ caps = Policy(<<>>, <<>>, <<>>)
    /\ fs = FS0
    /\ InitCapQuery
    /\ InitTool
    /\ telegram_allowed_users = <<>>
    /\ InitTurn
    /\ InitProc
    /\ InitSys

NextSkill ==
    \/ SkillStart
    \/ SkillExits
    \/ SkillWrite
    \/ SkillPoll
    \/ SkillSleep
    \/ SkillRead
    \/ SkillReturn

SpecSkill == InitSkill /\ [][NextSkill]_vars

\* C13: a skill subprocess never outlives the invocation that spawned it.
\* Whatever way the invocation ends, when its result is back with the
\* caller the child has been reaped (after exiting or after being killed),
\* or there never was a child: the tool is no skill or the spawn failed.
C13_NeverOutlives ==
    step = "done" =>
        /\ child.state \in {"none", "reaped"}
        /\ child.state = "none" =>
                Head(outcome.text) \in {"unknown skill tool: ", "failed to spawn skill '"}

\* the write of the request failed and the drop killed the running child
C13_Witness ==
    /\ step = "done"
    /\ outcome = err_string(<<"failed to write to skill stdin: ">>)
    /\ child.state = "reaped"
    /\ child.killed

\* C14: while invoke_skill waits for the child, exactly the one request
\* line has been written to the child's stdin and that stdin is closed.
C14_StdinClosedBeforeWait ==
    step \in {"skill_wait", "skill_sleep"} =>
        /\ child.written = request_str(call.input)
        /\ child.stdin = "closed"

\* C15: a poll that finds the child still running when the elapsed time has
\* reached the skill timeout kills and reaps it and returns the error
\* "skill timed out after <N>s"; and that error is returned only for a
\* child that was still running when the timeout had been reached.
C15_Timeout ==
    /\ [][(/\ step = "skill_wait" /\ step' # "skill_wait"
           /\ child.state = "running"
           /\ elapsed >= from_secs(skill_timeout)) =>
                /\ child'.state = "reaped"
                /\ child'.killed
                /\ outcome' =
                    err_string(<<"skill timed out after ">> \o u64_to_string(skill_timeout)
                               \o <<"s">>)]_vars
    /\ []((/\ step \in {"skill_drop", "done"}
           /\ outcome.text # <<>>
           /\ Head(outcome.text) = "skill timed out after ") =>
                /\ child.killed
                /\ child.state = "reaped"
                /\ elapsed >= from_secs(skill_timeout))

\* a skill that never answers has been killed at the timeout
C15_Witness ==
    /\ step = "done"
    /\ child.kind = "reads_to_eof"
    /\ child.killed
    /\ elapsed = from_secs(skill_timeout)
    /\ Head(outcome.text) = "skill timed out after "

has_str(json_val, key) == get(json_val, key).some /\ get(json_val, key).v.t = "string"

\* the precedence of the fields of a response: a result res is the one the
\* precedence gives for the line and the value read from it
follows_precedence(line, json_val, res) ==
    /\ has_str(json_val, <<"error">>) =>
            res = err_string(<<"skill error: ">> \o get(json_val, <<"error">>).v.s)
    /\ (~has_str(json_val, <<"error">>) /\ has_str(json_val, <<"result">>)) =>
            res = ok_string(get(json_val, <<"result">>).v.s)
    /\ (/\ ~has_str(json_val, <<"error">>)
        /\ get(json_val, <<"result">>).some
        /\ ~has_str(json_val, <<"result">>)) =>
            res = ok_string(serialize(get(json_val, <<"result">>).v))
    /\ (~has_str(json_val, <<"error">>) /\ ~get(json_val, <<"result">>).some) =>
            res = ok_string(line)

\* the fields of a line: those of the object it holds, none otherwise
fields_of(r) == IF r.ok THEN r.v ELSE JNull

\* the precedence applied to every line that is not empty, JSON or not
any_line_follows(line, r, res) ==
    line # <<>> => follows_precedence(line, fields_of(r), res)

\* the precedence applied to the lines that are JSON; the others are errors
json_line_follows(line, r, res) ==
    /\ line = <<>> => res = err_string(<<"skill produced no output">>)
    /\ (line # <<>> /\ ~r.ok) =>
            ~res.ok /\ Head(res.text) = "skill response is not valid JSON: "
    /\ (line # <<>> /\ r.ok) => follows_precedence(line, r.v, res)

\* the first line of the child's stdout, without the whitespace around it
first_line(c) == trim(read_line(c.stdout))

\* invoke_skill has read the child's stdout and made a result of it
ReadDone ==
    /\ step = "skill_read" /\ step' = "skill_drop"
    /\ outcome' # err_string(<<"failed to read skill response: ">>)

\* C16 as stated: the result made of the first line of stdout follows the
\* precedence error string, result string, result of another type, whole
\* line, whatever the line is.
C16_AnyLine ==
    [][ReadDone =>
        any_line_follows(first_line(child), parse(first_line(child)), outcome')]_vars

\* C16, amended: for a first line that, trimmed, is not empty and is valid
\* JSON the result follows the precedence error string, result string,
\* result of another type, whole trimmed line; an empty line gives the error
\* "skill produced no output" and a line that is not JSON the error "skill
\* response is not valid JSON".
C16_Precedence ==
    [][ReadDone =>
        json_line_follows(first_line(child), parse(first_line(child)), outcome')]_vars

\* a line with a result and an error string has given the error
C16_Witness ==
    /\ step = "skill_drop"
    /\ child.stdout = Line(JObj(<<ResultField(GotIt), ErrorField(Boom)>>))
    /\ outcome = err_string(<<"skill error: ", "boom">>)

\* ------------------------------------------------------------------------
\* security/linux.rs: the seccomp filter. A u32 is kept as its two 16-bit
\* halves, high half first.
\* ------------------------------------------------------------------------

u32(n) == <<n \div 65536, n % 65536>>

\* 0xC000003E
AUDIT_ARCH_X86_64 == <<49152, 62>>

\* 0x7fff0000
SECCOMP_RET_ALLOW == <<32767, 0>>

\* 0x00050000
SECCOMP_RET_ERRNO == <<5, 0>>

EPERM == 1

SECCOMP_DATA_NR == 0

SECCOMP_DATA_ARCH == 4

\* SECCOMP_RET_ERRNO | EPERM: the errno goes in the low half
errno_eperm == <<SECCOMP_RET_ERRNO[1], EPERM>>

SYS_PRCTL == 157

SYS_SECCOMP == 317

SYS_LANDLOCK_CREATE_RULESET == 444

SYS_LANDLOCK_ADD_RULE == 445

SYS_LANDLOCK_RESTRICT_SELF == 446

ALLOWED_SYSCALLS ==
    << 0, 1, 2, 3, 4, 5, 6, 7, 8, 9, 10, 11, 12, 13,
       14, 16, 17, 18, 19, 20, 21, 24, 28, 32, 33, 35, 39, 41,
       42, 44, 45, 46, 47, 49, 54, 55, 56, 59, 60, 61, 62, 72,
       78, 79, 80, 89, 96, 97, 102, 104, 107, 108, 110, 131, 137, 157,
       158, 202, 217, 218, 228, 230, 231, 233, 234, 257, 262, 270, 271, 273,
       281, 288, 291, 292, 293, 302, 309, 318, 332, 334, 435, 439 >>

SockFilter(code, jt, jf, k) == [code |-> code, jt |-> jt, jf |-> jf, k |-> k]

\* `as u8`
as_u8(n) == n % 256

\* faulty variant: the jump goes past the remaining checks only
jump_past_checks(remaining) == as_u8(remaining)

\* jt of a check: past the remaining checks and the DENY
jump_to_allow(remaining) == as_u8(remaining + 1)

\* the loop over ALLOWED_SYSCALLS: one equality test for each
checks(allowed) ==
    [i \in 1..Len(allowed) |->
        SockFilter("BPF_JMP|BPF_JEQ|BPF_K", jump_to_allow(Len(allowed) - (i - 1) - 1), 0,
                   u32(allowed[i]))]

build_seccomp_filter ==
    << SockFilter("BPF_LD|BPF_W|BPF_ABS", 0, 0, u32(SECCOMP_DATA_ARCH)),
       SockFilter("BPF_JMP|BPF_JEQ|BPF_K", 1, 0, AUDIT_ARCH_X86_64),
       SockFilter("BPF_RET|BPF_K", 0, 0, errno_eperm),
       SockFilter("BPF_LD|BPF_W|BPF_ABS", 0, 0, u32(SECCOMP_DATA_NR)) >>
    \o checks(ALLOWED_SYSCALLS)
    \o << SockFilter("BPF_RET|BPF_K", 0, 0, errno_eperm),
          SockFilter("BPF_RET|BPF_K", 0, 0, SECCOMP_RET_ALLOW) >>

\* the word of seccomp_data at an offset
seccomp_data(b, offset) == IF offset = u32(SECCOMP_DATA_ARCH) THEN b.arch ELSE b.nr

\* the kernel runs one instruction of a filter; pc counts from 0
bpf_step(filter, b) ==
    IF b.pc >= Len(filter) THEN [b EXCEPT !.done = TRUE, !.ret = <<0, 0>>]
    ELSE CASE filter[b.pc + 1].code = "BPF_LD|BPF_W|BPF_ABS" ->
                [b EXCEPT !.A = seccomp_data(b, filter[b.pc + 1].k), !.pc = b.pc + 1]
           [] filter[b.pc + 1].code = "BPF_JMP|BPF_JEQ|BPF_K" ->
                [b EXCEPT !.pc = b.pc + 1 + (IF b.A = filter[b.pc + 1].k
                                                THEN filter[b.pc + 1].jt
                                             ELSE filter[b.pc + 1].jf)]
           [] filter[b.pc + 1].code = "BPF_RET|BPF_K" ->
                [b EXCEPT !.done = TRUE, !.ret = filter[b.pc + 1].k]

\* the greatest syscall number the filter is run on
MaxSyscallNr == 450

\* x86-64, i386, aarch64
Archs == { AUDIT_ARCH_X86_64, <<16384, 3>>, <<49152, 183>> }

\* the numbers up to the greatest, and some of the x32 ABI (bit 30 set)
SyscallNumbers ==
    { u32(n) : n \in 0..MaxSyscallNr } \cup { <<16384, n>> : n \in {0, 1, 59} }

\* the kernel runs the next instruction of the installed filter
BpfStep ==
    /\ ~bpf.done
    /\ bpf' = bpf_step(build_seccomp_filter, bpf)
    /\ UNCHANGED <<envVars, capVars, toolVars, turnVars, procVars,
                   entry, boot, did, kernel, sandbox, syscalls, loopVars>>

InitFilter ==
    /\ caps = Policy(<<>>, <<>>, <<>>)
    /\ fs = FS0
    /\ InitCapQuery
    /\ InitTool
    /\ telegram_allowed_users = <<>>
    /\ InitTurn
    /\ InitProc
    /\ entry = NoEntry
    /\ boot = "none"
    /\ did = <<>>
    /\ kernel = NoKernel
    /\ sandbox = NoSandboxResult
    /\ syscalls = <<>>
    /\ InitLoop
    /\ \E arch \in Archs, nr \in SyscallNumbers : bpf = [NoBpf EXCEPT !.arch = arch, !.nr = nr]

NextFilter == BpfStep

SpecFilter == InitFilter /\ [][NextFilter]_vars

InWhitelist(nr) == \E i \in 1..Len(ALLOWED_SYSCALLS) : nr = u32(ALLOWED_SYSCALLS[i])

\* the positions, from 0, of the final ALLOW and of the load of the number
AllowAt == Len(build_seccomp_filter) - 1

LoadNrAt == AllowAt - Len(ALLOWED_SYSCALLS) - 2

\* the filter returns ALLOW for the whitelisted numbers of x86-64 and
\* ERRNO|EPERM for everything else, and never runs past its end
FilterVerdict ==
    [](/\ bpf.pc < Len(build_seccomp_filter)
       /\ \A i \in 1..Len(build_seccomp_filter) :
            /\ build_seccomp_filter[i].jt \in 0..255
            /\ build_seccomp_filter[i].jf \in 0..255
       /\ \A i \in 1..Len(ALLOWED_SYSCALLS) :
            build_seccomp_filter[4 + i].jt = Len(ALLOWED_SYSCALLS) - i + 1
       /\ bpf.done =>
            /\ bpf.ret \in {SECCOMP_RET_ALLOW, errno_eperm}
            /\ bpf.ret = SECCOMP_RET_ALLOW <=>
                    (bpf.arch = AUDIT_ARCH_X86_64 /\ InWhitelist(bpf.nr)))

\* the step is a conditional jump
IsJump == ~bpf.done /\ build_seccomp_filter[bpf.pc + 1].code = "BPF_JMP|BPF_JEQ|BPF_K"

layers_seccomp_first == <<"seccomp", "landlock">>

\* the order of the two layers in apply_sandbox
layers == <<"landlock", "seccomp">>

enabled(res, layer) == IF layer = "landlock" THEN res.enable_landlock ELSE res.enable_seccomp

first_step(layer) == IF layer = "landlock" THEN "ll_create" ELSE "sc_no_new_privs"

\* the first step of the k-th layer or, when it is not enabled, of the
\* layers after it; the return when there is none
RECURSIVE enter_layer(_, _)
enter_layer(res, k) ==
    IF k > Len(layers) THEN "returned"
    ELSE IF enabled(res, layers[k]) THEN first_step(layers[k])
    ELSE enter_layer(res, k + 1)

position(layer) == CHOOSE k \in 1..Len(layers) : layers[k] = layer

\* where apply_sandbox goes on when a layer is done
after_layer(res, layer) == enter_layer(res, position(layer) + 1)

\* the paths apply_landlock adds a rule for, one of each kind: a configured
\* read path, a configured write path, a system read path, an executable
\* directory, /tmp. Only the failures of the first two are reported.
LandlockRules ==
    << [path |-> "read_path", reported |-> TRUE],
       [path |-> "write_path", reported |-> TRUE],
       [path |-> "/etc/hosts", reported |-> FALSE],
       [path |-> "/usr/bin", reported |-> FALSE],
       [path |-> "/tmp", reported |-> FALSE] >>

\* a raw syscall as the log keeps it
Syscall(nr, k) == [nr |-> nr, filtered |-> k.seccomp]

\* the kernel lets the syscall through: no filter, or a whitelisted number
passes(k, nr) == ~k.seccomp \/ InWhitelist(u32(nr))

\* faulty variant: a failed layer is reported as applied
landlock_done_applied(res, ok) == [res EXCEPT !.landlock_applied = TRUE]

\* match apply_landlock(..) in apply_sandbox
landlock_done(res, ok) ==
    IF ok THEN [res EXCEPT !.landlock_applied = TRUE]
    ELSE [res EXCEPT !.landlock_error = TRUE]

\* match apply_seccomp() in apply_sandbox
seccomp_done(res, ok) ==
    IF ok THEN [res EXCEPT !.seccomp_applied = TRUE]
    ELSE [res EXCEPT !.seccomp_error = TRUE]

failing(res, step_name) == [res EXCEPT !.failed = res.failed \cup {step_name}]

restVars == <<envVars, capVars, toolVars, turnVars, procVars, loopVars>>

\* landlock_create_ruleset
LandlockCreate ==
    /\ boot = "ll_create"
    /\ syscalls' = Append(syscalls, Syscall(SYS_LANDLOCK_CREATE_RULESET, kernel))
    /\ \/ /\ passes(kernel, SYS_LANDLOCK_CREATE_RULESET)
          /\ kernel' = [kernel EXCEPT !.ruleset = "open"]
          /\ boot' = "ll_rules"
          /\ UNCHANGED sandbox
       \/ /\ sandbox' = landlock_done(failing(sandbox, "ll_create"), FALSE)
          /\ boot' = after_layer(sandbox, "landlock")
          /\ UNCHANGED kernel
    /\ UNCHANGED <<restVars, entry, did, bpf>>

\* add_landlock_path_rule for the next path: the path does not exist and is
\* skipped; or the rule is added; or the open or the syscall fails, which
\* apply_landlock reports or ignores and goes on
LandlockAddRule ==
    /\ boot = "ll_rules" /\ sandbox.next_rule <= Len(LandlockRules)
    /\ \/ /\ UNCHANGED <<kernel, syscalls>>
          /\ sandbox' = [sandbox EXCEPT !.next_rule = sandbox.next_rule + 1]
       \/ /\ passes(kernel, SYS_LANDLOCK_ADD_RULE)
          /\ syscalls' = Append(syscalls, Syscall(SYS_LANDLOCK_ADD_RULE, kernel))
          /\ kernel' = [kernel EXCEPT
                            !.rules = kernel.rules \cup {LandlockRules[sandbox.next_rule].path}]
          /\ sandbox' = [sandbox EXCEPT !.next_rule = sandbox.next_rule + 1]
       \/ /\ \E opened \in BOOLEAN :
                syscalls' = IF opened
                                THEN Append(syscalls, Syscall(SYS_LANDLOCK_ADD_RULE, kernel))
                            ELSE syscalls
          /\ sandbox' = [failing(sandbox, "ll_add_rule") EXCEPT
                            !.next_rule = sandbox.next_rule + 1]
          /\ UNCHANGED kernel
    /\ UNCHANGED <<restVars, entry, boot, did, bpf>>

\* prctl(PR_SET_NO_NEW_PRIVS) in apply_landlock
LandlockNoNewPrivs ==
    /\ boot = "ll_rules" /\ sandbox.next_rule > Len(LandlockRules)
    /\ syscalls' = Append(syscalls, Syscall(SYS_PRCTL, kernel))
    /\ \/ /\ passes(kernel, SYS_PRCTL)
          /\ kernel' = [kernel EXCEPT !.no_new_privs = TRUE]
          /\ boot' = "ll_restrict"
          /\ UNCHANGED sandbox
       \/ /\ kernel' = [kernel EXCEPT !.ruleset = "closed"]
          /\ sandbox' = landlock_done(failing(sandbox, "ll_no_new_privs"), FALSE)
          /\ boot' = after_layer(sandbox, "landlock")
    /\ UNCHANGED <<restVars, entry, did, bpf>>

\* landlock_restrict_self, then the ruleset fd is closed
LandlockRestrict ==
    /\ boot = "ll_restrict"
    /\ syscalls' = Append(syscalls, Syscall(SYS_LANDLOCK_RESTRICT_SELF, kernel))
    /\ \/ /\ passes(kernel, SYS_LANDLOCK_RESTRICT_SELF)
          /\ kernel' = [kernel EXCEPT !.ruleset = "closed", !.landlock = TRUE]
          /\ sandbox' = landlock_done(sandbox, TRUE)
       \/ /\ kernel' = [kernel EXCEPT !.ruleset = "closed"]
          /\ sandbox' = landlock_done(failing(sandbox, "ll_restrict"), FALSE)
    /\ boot' = after_layer(sandbox, "landlock")
    /\ UNCHANGED <<restVars, entry, did, bpf>>

\* prctl(PR_SET_NO_NEW_PRIVS) in apply_seccomp
SeccompNoNewPrivs ==
    /\ boot = "sc_no_new_privs"
    /\ syscalls' = Append(syscalls, Syscall(SYS_PRCTL, kernel))
    /\ \/ /\ passes(kernel, SYS_PRCTL)
          /\ kernel' = [kernel EXCEPT !.no_new_privs = TRUE]
          /\ boot' = "sc_install"
          /\ UNCHANGED sandbox
       \/ /\ sandbox' = seccomp_done(failing(sandbox, "sc_no_new_privs"), FALSE)
          /\ boot' = after_layer(sandbox, "seccomp")
          /\ UNCHANGED kernel
    /\ UNCHANGED <<restVars, entry, did, bpf>>

\* seccomp(SECCOMP_SET_MODE_FILTER) with the filter built
SeccompInstall ==
    /\ boot = "sc_install"
    /\ syscalls' = Append(syscalls, Syscall(SYS_SECCOMP, kernel))
    /\ \/ /\ passes(kernel, SYS_SECCOMP) /\ kernel.no_new_privs
          /\ kernel' = [kernel EXCEPT !.seccomp = TRUE]
          /\ sandbox' = seccomp_done(sandbox, TRUE)
       \/ /\ sandbox' = seccomp_done(failing(sandbox, "sc_install"), FALSE)
          /\ UNCHANGED kernel
    /\ boot' = after_layer(sandbox, "seccomp")
    /\ UNCHANGED <<restVars, entry, did, bpf>>

\* apply_sandbox called with some flags, on a fresh process
InitSandbox ==
    /\ caps = Policy(<<>>, <<>>, <<>>)
    /\ fs = FS0
    /\ InitCapQuery
    /\ InitTool
    /\ telegram_allowed_users = <<>>
    /\ InitTurn
    /\ InitProc
    /\ entry = NoEntry
    /\ did = <<>>
    /\ kernel = NoKernel
    /\ syscalls = <<>>
    /\ bpf = NoBpf
    /\ InitLoop
    /\ \E s \in BOOLEAN, l \in BOOLEAN :
        /\ sandbox = [NoSandboxResult EXCEPT !.enable_seccomp = s, !.enable_landlock = l]
        /\ boot = enter_layer(sandbox, 1)

NextSandbox ==
    \/ LandlockCreate
    \/ LandlockAddRule
    \/ LandlockNoNewPrivs
    \/ LandlockRestrict
    \/ SeccompNoNewPrivs
    \/ SeccompInstall

SpecSandbox == InitSandbox /\ [][NextSandbox]_vars

\* ------------------------------------------------------------------------
\* Claims about apply_sandbox
\* ------------------------------------------------------------------------

LandlockSyscalls ==
    {SYS_LANDLOCK_CREATE_RULESET, SYS_LANDLOCK_ADD_RULE, SYS_LANDLOCK_RESTRICT_SELF}

LandlockSteps == {"ll_create", "ll_rules", "ll_restrict"}

\* C22: every Landlock step is over before the seccomp filter is installed:
\* no Landlock syscall is issued under the filter, every Landlock syscall
\* precedes the seccomp syscall, and no Landlock step is pending once the
\* filter is in force.
C22_LandlockBeforeSeccomp ==
    /\ \A i \in 1..Len(syscalls) :
            syscalls[i].nr \in LandlockSyscalls => ~syscalls[i].filtered
    /\ \A i \in 1..Len(syscalls), j \in 1..Len(syscalls) :
            syscalls[i].nr \in LandlockSyscalls /\ syscalls[j].nr = SYS_SECCOMP => i < j
    /\ kernel.seccomp => boot \notin LandlockSteps
    /\ \A nr \in LandlockSyscalls : ~InWhitelist(u32(nr))

\* both layers were applied, by the three Landlock syscalls and then seccomp
C22_Witness ==
    /\ boot = "returned"
    /\ sandbox.landlock_applied /\ sandbox.seccomp_applied
    /\ kernel.landlock /\ kernel.seccomp
    /\ LandlockSyscalls \cup {SYS_SECCOMP} \subseteq {syscalls[i].nr : i \in 1..Len(syscalls)}

LandlockFatal == {"ll_create", "ll_no_new_privs", "ll_restrict"}

SeccompFatal == {"sc_no_new_privs", "sc_install"}

\* what holds of both readings of C24 when apply_sandbox has returned: the
\* error field is set exactly when the layer was attempted and not applied,
\* an enabled seccomp layer was attempted whatever Landlock did, the flags
\* say what the kernel enforces, and before the return a step can be taken
SandboxReturn ==
    /\ boot # "returned" => ENABLED NextSandbox
    /\ boot = "returned" =>
        /\ sandbox.landlock_error <=> sandbox.enable_landlock /\ ~sandbox.landlock_applied
        /\ sandbox.seccomp_error <=> sandbox.enable_seccomp /\ ~sandbox.seccomp_applied
        /\ sandbox.seccomp_applied <=>
                sandbox.enable_seccomp /\ sandbox.failed \cap SeccompFatal = {}
        /\ sandbox.enable_seccomp =>
                \/ Last(syscalls).nr = SYS_SECCOMP
                \/ Last(syscalls).nr = SYS_PRCTL /\ "sc_no_new_privs" \in sandbox.failed
        /\ sandbox.landlock_applied <=> kernel.landlock
        /\ sandbox.seccomp_applied <=> kernel.seccomp

\* C24 as stated: landlock_applied is true exactly when every step of the
\* layer, the add-rule calls included, succeeded.
C24_AppliedIffEveryStep ==
    /\ SandboxReturn
    /\ boot = "returned" =>
        (sandbox.landlock_applied <=>
            sandbox.enable_landlock
                /\ sandbox.failed \cap (LandlockFatal \cup {"ll_add_rule"}) = {})

\* C24: the layers fail independently and apply_sandbox returns;
\* landlock_applied is true exactly when create-ruleset, no-new-privs and
\* restrict-self succeeded, whatever the add-rule calls returned;
\* seccomp_applied is true exactly when every seccomp step succeeded; the
\* error field of a layer is set exactly when it was attempted and failed.
C24_Layers ==
    /\ SandboxReturn
    /\ boot = "returned" =>
        (sandbox.landlock_applied <=>
            sandbox.enable_landlock /\ sandbox.failed \cap LandlockFatal = {})

\* an add-rule call failed, Landlock is in force all the same, seccomp failed
C24_Witness ==
    /\ boot = "returned"
    /\ "ll_add_rule" \in sandbox.failed
    /\ sandbox.landlock_applied /\ kernel.landlock
    /\ sandbox.seccomp_error /\ ~kernel.seccomp

\* ------------------------------------------------------------------------
\* main.rs, app.rs: the start of the process, from the entry point to the
\* main loop. `did` logs the calls the claims are about, in order.
\* ------------------------------------------------------------------------

MaxDid == 5

\* the entry points of the sources: main of main.rs, which has no sandbox
\* setting, and run of app.rs with config.sandbox set or cleared
Entries ==
    { [point |-> "main", sandbox |-> FALSE],
      [point |-> "run", sandbox |-> TRUE],
      [point |-> "run", sandbox |-> FALSE] }

\* `if config.sandbox { apply_sandbox(..) }` is in run only
calls_sandbox(e) == e.point = "run" /\ e.sandbox

\* Config::load: a configuration, or exit(1)
LoadConfig ==
    /\ boot = "start"
    /\ boot' \in {"configured", "exited"}
    /\ UNCHANGED <<restVars, entry, did, kernel, sandbox, syscalls, bpf>>

\* run with config.sandbox: apply_sandbox(&read, &write, true, true)
CallSandbox ==
    /\ boot = "configured" /\ calls_sandbox(entry)
    /\ did' = Append(did, "apply_sandbox")
    /\ sandbox' = [NoSandboxResult EXCEPT !.enable_seccomp = TRUE, !.enable_landlock = TRUE]
    /\ boot' = enter_layer(sandbox', 1)
    /\ UNCHANGED <<restVars, entry, kernel, syscalls, bpf>>

\* main, and run without config.sandbox, go on without the call
SkipSandbox ==
    /\ boot = "configured" /\ ~calls_sandbox(entry)
    /\ boot' = "sandboxed"
    /\ UNCHANGED <<restVars, entry, did, kernel, sandbox, syscalls, bpf>>

\* apply_sandbox returns its result to run
SandboxReturns ==
    /\ boot = "returned"
    /\ did' = Append(did, "apply_sandbox returned")
    /\ boot' = "sandboxed"
    /\ UNCHANGED <<restVars, entry, kernel, sandbox, syscalls, bpf>>

\* auditor, provider, connectors, executor: the loop is entered, or exit(1)
Setup ==
    /\ boot = "sandboxed"
    /\ boot' \in {"loop", "exited"}
    /\ UNCHANGED <<restVars, entry, did, kernel, sandbox, syscalls, bpf>>

\* a connector is polled: nothing to handle, or a message starts a turn
Poll ==
    /\ boot = "loop" /\ Len(did) < MaxDid
    /\ did' = Append(did, "poll_messages")
    /\ boot' \in {"loop", "turn"}
    /\ UNCHANGED <<restVars, entry, kernel, sandbox, syscalls, bpf>>

\* run_agent_turn calls the provider: the turn ends, or tools are requested
LlmCall ==
    /\ boot = "turn" /\ Len(did) < MaxDid
    /\ did' = Append(did, "send")
    /\ boot' \in {"loop", "tools"}
    /\ UNCHANGED <<restVars, entry, kernel, sandbox, syscalls, bpf>>

\* the requested tools are dispatched, then the provider is called again
ToolDispatch ==
    /\ boot = "tools" /\ Len(did) < MaxDid
    /\ did' = Append(did, "execute")
    /\ boot' \in {"tools", "turn"}
    /\ UNCHANGED <<restVars, entry, kernel, sandbox, syscalls, bpf>>

InitBoot ==
    /\ caps = Policy(<<>>, <<>>, <<>>)
    /\ fs = FS0
    /\ InitCapQuery
    /\ InitTool
    /\ telegram_allowed_users = <<>>
    /\ InitTurn
    /\ InitProc
    /\ entry \in Entries
    /\ boot = "start"
    /\ did = <<>>
    /\ kernel = NoKernel
    /\ sandbox = NoSandboxResult
    /\ syscalls = <<>>
    /\ bpf = NoBpf
    /\ InitLoop

NextBoot ==
    \/ LoadConfig
    \/ CallSandbox
    \/ SkipSandbox
    \/ LandlockCreate
    \/ LandlockAddRule
    \/ LandlockNoNewPrivs
    \/ LandlockRestrict
    \/ SeccompNoNewPrivs
    \/ SeccompInstall
    \/ SandboxReturns
    \/ Setup
    \/ Poll
    \/ LlmCall
    \/ ToolDispatch

SpecBoot == InitBoot /\ [][NextBoot]_vars

Outside == {"poll_messages", "send", "execute"}

\* C21: apply_sandbox is called once at most, and when a connector poll, an
\* LLM call or a tool dispatch has been made, a call of apply_sandbox was
\* made and had returned before the first of them.
C21_SandboxFirst ==
    /\ Cardinality({i \in 1..Len(did) : did[i] = "apply_sandbox"}) <= 1
    /\ \A k \in 1..Len(did) :
            did[k] \in Outside =>
                \E i \in 1..Len(did), j \in 1..Len(did) :
                    /\ i < j /\ j < k
                    /\ did[i] = "apply_sandbox"
                    /\ did[j] = "apply_sandbox returned"

\* ------------------------------------------------------------------------
\* app.rs: one round of run_agent_turn, with the clock. Time passes while
\* the provider call waits for the stream, in a connector call and in the
\* sleep after a rate limit. Times are in milliseconds.
\* ------------------------------------------------------------------------

MaxNow == 1500

TickMs == 250

MaxStreamed == 20

\* the lengths of the text deltas the provider streams
DeltaLens == {5, 10}

\* retry_after of LlmError::RateLimit, in seconds
RetryAfters == { [some |-> FALSE, v |-> 0], [some |-> TRUE, v |-> 0], [some |-> TRUE, v |-> 2] }

StopReasons == {"end_turn", "max_tokens", "tool_use", "other"}

ConnectorCall(op, at, by) == [op |-> op, at |-> at, by |-> by]

\* faulty variant: the callback updates the message on every delta
should_update_always(elapsed_ms) == TRUE

\* last_edit.elapsed() >= Duration::from_millis(500)
should_update(elapsed_ms) == elapsed_ms >= 500

\* faulty variant: the first message goes out however short the buffer is
long_enough_any(len) == len >= 0

\* streamed_text.len() >= 10
long_enough(len) == len >= 10

\* retry_after.unwrap_or(10)
wait_secs(retry_after) == IF retry_after.some THEN retry_after.v ELSE 10

\* faulty variant: a rate limit on the retry is waited out and retried
on_retry_error_again(kind) == IF kind = "rate_limit" THEN "sleeping" ELSE "returned"

\* `.map_err(..)?` on the retry: any error ends the turn
on_retry_error(kind) == "returned"

\* faulty variant: the final text always goes out as a fresh message
deliver_always_fresh(platform_msg_id, at) ==
    IF platform_msg_id
        THEN <<ConnectorCall("edit_message_text", at, "final"),
               ConnectorCall("send_message", at, "final")>>
    ELSE <<ConnectorCall("send_message", at, "final")>>

\* the EndTurn | MaxTokens arm: the streamed message is edited, or the text
\* is sent as a message
deliver(platform_msg_id, at) ==
    IF platform_msg_id THEN <<ConnectorCall("edit_message_text", at, "final")>>
    ELSE <<ConnectorCall("send_message", at, "final")>>

\* the ToolUse arm: a streamed message is edited when there is text
finalize(platform_msg_id, text_empty, at) ==
    IF platform_msg_id /\ ~text_empty
        THEN <<ConnectorCall("edit_message_text", at, "final")>>
    ELSE <<>>

otherVars == <<envVars, capVars, toolVars, turnVars, procVars,
               entry, boot, did, kernel, sandbox, syscalls, bpf, manifest, auxVars>>

\* send_streaming waits for the next event of the stream
StreamWait ==
    /\ stream.phase = "streaming" /\ stream.now < MaxNow
    /\ stream' = [stream EXCEPT !.now = stream.now + TickMs]
    /\ UNCHANGED <<otherVars, sup>>

\* the on_text callback, for one text delta
OnText ==
    /\ stream.phase = "streaming"
    /\ \E len \in DeltaLens, took \in {0, TickMs}, sent_ok \in BOOLEAN :
        LET total == stream.streamed_len + len
            pushed == [stream EXCEPT !.streamed_len = total]
        IN /\ total <= MaxStreamed
           /\ stream' =
                IF ~should_update(stream.now - stream.last_edit) THEN pushed
                ELSE IF stream.platform_msg_id
                    THEN [pushed EXCEPT
                            !.calls = Append(stream.calls,
                                ConnectorCall("edit_message_text", stream.now, "on_text")),
                            !.now = stream.now + took,
                            !.last_edit = stream.now + took]
                ELSE IF long_enough(total)
                    THEN [pushed EXCEPT
                            !.calls = Append(stream.calls,
                                ConnectorCall("send_message_get_id", stream.now, "on_text")),
                            !.platform_msg_id = sent_ok,
                            !.now = stream.now + took,
                            !.last_edit = stream.now + took]
                ELSE [pushed EXCEPT !.last_edit = stream.now]
    /\ UNCHANGED <<otherVars, sup>>

\* send_streaming returns Ok(response)
StreamOk ==
    /\ stream.phase = "streaming"
    /\ \E stop \in StopReasons, empty \in BOOLEAN :
        stream' = [stream EXCEPT !.phase = "respond", !.stop_reason = stop,
                                 !.text_empty = empty]
    /\ UNCHANGED <<otherVars, sup>>

\* send_streaming returns Err(RateLimit): the wait is printed
StreamRateLimited ==
    /\ stream.phase = "streaming"
    /\ \E ra \in RetryAfters :
        stream' = [stream EXCEPT !.phase = "sleeping", !.retry_after = ra]
    /\ UNCHANGED <<otherVars, sup>>

\* send_streaming returns any other error: the turn returns it
StreamFails ==
    /\ stream.phase = "streaming"
    /\ stream' = [stream EXCEPT !.phase = "returned", !.result = "LLM API error"]
    /\ UNCHANGED <<otherVars, sup>>

\* thread::sleep(Duration::from_secs(wait))
RateLimitSleep ==
    /\ stream.phase = "sleeping"
    /\ LET ms == wait_secs(stream.retry_after) * 1000
       IN stream' = [stream EXCEPT !.phase = "retry", !.now = stream.now + ms,
                                   !.slept = stream.slept + ms]
    /\ UNCHANGED <<otherVars, sup>>

\* llm.send, the non-streaming retry
Retry ==
    /\ stream.phase = "retry"
    /\ \/ \E stop \in StopReasons, empty \in BOOLEAN :
            stream' = [stream EXCEPT !.llm = Append(stream.llm, "send"),
                                     !.retry = "ok", !.phase = "respond",
                                     !.stop_reason = stop, !.text_empty = empty]
       \/ \E kind \in {"rate_limit", "error"} :
            stream' = [stream EXCEPT !.llm = Append(stream.llm, "send"),
                                     !.retry = kind, !.phase = on_retry_error(kind),
                                     !.result = "LLM API error"]
    /\ UNCHANGED <<otherVars, sup>>

\* the match on the stop reason of the response
Respond ==
    /\ stream.phase = "respond"
    /\ stream' =
        IF stream.stop_reason \in {"end_turn", "max_tokens"}
            THEN [stream EXCEPT
                    !.calls = stream.calls \o deliver(stream.platform_msg_id, stream.now),
                    !.phase = "returned", !.result = "ok"]
        ELSE IF stream.stop_reason = "tool_use"
            THEN [stream EXCEPT
                    !.calls = stream.calls \o
                        finalize(stream.platform_msg_id, stream.text_empty, stream.now),
                    !.phase = "tools"]
        ELSE [stream EXCEPT !.phase = "returned", !.result = "unexpected stop reason"]
    /\ UNCHANGED <<otherVars, sup>>

\* the start of a round: the streaming state is fresh and send_streaming
\* is called
InitStream ==
    /\ caps = Policy(<<>>, <<>>, <<>>)
    /\ fs = FS0
    /\ InitCapQuery
    /\ InitTool
    /\ telegram_allowed_users = <<>>
    /\ InitTurn
    /\ InitProc
    /\ entry = NoEntry
    /\ boot = "none"
    /\ did = <<>>
    /\ kernel = NoKernel
    /\ sandbox = NoSandboxResult
    /\ syscalls = <<>>
    /\ bpf = NoBpf
    /\ sup = NoSup
    /\ manifest = NoManifest
    /\ InitAux
    /\ stream = [NoStream EXCEPT !.phase = "streaming", !.llm = <<"send_streaming">>]

NextStream ==
    \/ StreamWait
    \/ OnText
    \/ StreamOk
    \/ StreamRateLimited
    \/ StreamFails
    \/ RateLimitSleep
    \/ Retry
    \/ Respond

SpecStream == InitStream /\ [][NextStream]_vars

\* ------------------------------------------------------------------------
\* Claims about one round of run_agent_turn
\* ------------------------------------------------------------------------

RateLimited == stream.phase \in {"sleeping", "retry"} \/ stream.retry # "none"

\* C25: a rate limit on the streaming call is waited out for retry-after
\* seconds, 10 by default, and followed by one non-streaming send; when that
\* fails too, on a second rate limit included, the turn ends with the error;
\* a round makes two LLM calls at most.
C25_RetryOnce ==
    /\ Len(stream.llm) <= 2
    /\ stream.llm[1] = "send_streaming"
    /\ Len(stream.llm) = 2 => stream.llm[2] = "send" /\ stream.retry # "none"
    /\ stream.retry # "none" =>
        /\ stream.llm = <<"send_streaming", "send">>
        /\ stream.slept =
                (IF stream.retry_after.some THEN stream.retry_after.v ELSE 10) * 1000
    /\ ~RateLimited => stream.slept = 0 /\ Len(stream.llm) = 1
    /\ stream.retry \in {"rate_limit", "error"} =>
        stream.phase = "returned" /\ stream.result = "LLM API error"

\* the retry after the default wait was rate-limited too, and the turn ended
C25_Witness ==
    /\ stream.retry = "rate_limit" /\ ~stream.retry_after.some
    /\ stream.slept = 10000
    /\ stream.phase = "returned" /\ stream.result = "LLM API error"

Finals == SelectSeq(stream.calls, LAMBDA c : c.by = "final")

\* C26: when a round has ended with stop reason end_turn or max_tokens, one
\* final connector call was made: an edit of the streamed message when a
\* message id was remembered, a fresh message when none was; and the turn
\* returned Ok.
C26_DeliveredOnce ==
    stream.stop_reason \in {"end_turn", "max_tokens"} /\ stream.phase = "returned" =>
        /\ Len(Finals) = 1
        /\ Finals[1].op =
                (IF stream.platform_msg_id THEN "edit_message_text" ELSE "send_message")
        /\ stream.result = "ok"

\* a message was streamed and the final text went out as its edit
C26_Witness ==
    /\ stream.phase = "returned" /\ stream.stop_reason = "end_turn"
    /\ stream.platform_msg_id
    /\ Len(Finals) = 1 /\ Finals[1].op = "edit_message_text"
    /\ stream.result = "ok"

Streamed == SelectSeq(stream.calls, LAMBDA c : c.by = "on_text")

\* the step is a call of the callback that calls the connector
CallbackCalls == stream.phase = "streaming" /\ stream'.calls # stream.calls

C27_Throttled ==
    \A k \in 1..Len(Streamed) - 1 : Streamed[k + 1].at - Streamed[k].at >= 500

\* the callback sent the message and edited it 500 ms later
C27_Witness ==
    /\ Len(Streamed) >= 2
    /\ Streamed[1].op = "send_message_get_id" /\ Streamed[2].op = "edit_message_text"
    /\ Streamed[2].at - Streamed[1].at = 500

\* ------------------------------------------------------------------------
\* app.rs: the supervisor loop over the connectors. sup.log holds what the
\* loop did for the connector it polled last, in order.
\* ------------------------------------------------------------------------

MaxTicks == 2

MaxBatch == 2

\* the connectors built at startup, in their order
Connectors == <<"telegram", "discord">>

\* what the handling of a message depends on
MessageKinds == {"unauthorized", "clear", "text"}

Batches == UNION { [1..n -> MessageKinds] : n \in 0..MaxBatch }

\* n messages of a history; the loop looks at their number only
messages(n) == [k \in 1..n |-> "message"]

\* what run_agent_turn returned and the messages it pushed on the history
TurnOutcomes ==
    { [result |-> "ok", pushed |-> messages(1)],
      [result |-> "LLM API error", pushed |-> messages(0)],
      [result |-> "unexpected stop reason", pushed |-> messages(1)],
      [result |-> "max tool rounds exceeded", pushed |-> messages(2 * MAX_TOOL_ROUNDS)] }

Event(ev, c, text, n) == [ev |-> ev, c |-> c, text |-> text, n |-> n]

\* the send_message calls as events of connector c
sends(c, calls) == [k \in 1..Len(calls) |-> Event("send_message", c, calls[k].text, 0)]

\* faulty variant: a poll error ends the pass over the connectors
after_poll_error_break(i) == Len(Connectors) + 1

\* `continue` in the for loop over the connectors
after_poll_error(i) == i + 1

\* the loop goes on with connector i, or the pass over the connectors is over
goto_connector(s, i) ==
    IF i <= Len(Connectors) THEN [s EXCEPT !.pc = "poll", !.i = i]
    ELSE [s EXCEPT !.pc = "end_tick", !.i = i]

\* poll_messages fails: the error is printed, the loop sleeps 5 s and
\* goes on with the next connector
SupPollError ==
    /\ sup.pc = "poll" /\ sup.tick < MaxTicks
    /\ sup' = [goto_connector(sup, after_poll_error(sup.i)) EXCEPT
                    !.log = << Event("poll_error", sup.i, <<>>, sup.tick),
                               Event("sleep", sup.i, <<>>, 5) >>]
    /\ UNCHANGED <<otherVars, stream>>

\* poll_messages returns a batch of messages
SupPoll ==
    /\ sup.pc = "poll" /\ sup.tick < MaxTicks
    /\ \E updates \in Batches :
        LET polled == [sup EXCEPT
                        !.log = <<Event("poll_ok", sup.i, <<>>, Len(updates))>>,
                        !.batch = updates,
                        !.had_messages = sup.had_messages \/ updates # <<>>]
        IN sup' = IF updates = <<>> THEN goto_connector(polled, sup.i + 1)
                  ELSE [polled EXCEPT !.pc = "handle"]
    /\ UNCHANGED <<otherVars, stream>>

\* the body of `for msg in updates` for the next message of the batch
SupHandle ==
    /\ sup.pc = "handle"
    /\ LET c == sup.i
           kind == Head(sup.batch)
           received == Append(sup.log, Event("message", c, <<kind>>, 0))
           rest == [sup EXCEPT !.batch = Tail(sup.batch)]
           next == IF Tail(sup.batch) = <<>> THEN goto_connector(rest, c + 1) ELSE rest
       IN \/ /\ kind = "unauthorized"
             /\ sup' = [next EXCEPT !.log =
                            Append(received, Event("send_message", c, <<"Unauthorized.">>, 0))]
          \/ /\ kind = "clear"
             /\ sup' = [next EXCEPT
                            !.history[c] = <<>>,
                            !.log = Append(received,
                                Event("send_message", c, <<"Conversation cleared.">>, 0))]
          \/ /\ kind = "text"
             /\ \E turn \in TurnOutcomes :
                    LET pushed == sup.history[c] \o messages(1) \o turn.pushed
                    IN sup' = [next EXCEPT
                                !.history[c] = trim_history(pushed),
                                !.log = Append(received,
                                            Event("run_agent_turn", c, <<turn.result>>, Len(pushed)))
                                        \o sends(c, error_reply(<<>>, c, turn.result))
                                        \o <<Event("trim", c, <<>>, Len(trim_history(pushed)))>>]
    /\ UNCHANGED <<otherVars, stream>>

\* the end of the loop body: the sleep when no connector had a message
SupEndTick ==
    /\ sup.pc = "end_tick"
    /\ sup' = [sup EXCEPT
                !.pc = "poll", !.i = 1, !.tick = sup.tick + 1, !.had_messages = FALSE,
                !.batch = <<>>,
                !.log = IF ~sup.had_messages /\ Len(Connectors) > 1
                            THEN <<Event("sleep", 0, <<>>, 1)>>
                        ELSE <<>>]
    /\ UNCHANGED <<otherVars, stream>>

InitSup ==
    /\ caps = Policy(<<>>, <<>>, <<>>)
    /\ fs = FS0
    /\ InitCapQuery
    /\ InitTool
    /\ telegram_allowed_users = <<>>
    /\ InitTurn
    /\ InitProc
    /\ entry = NoEntry
    /\ boot = "none"
    /\ did = <<>>
    /\ kernel = NoKernel
    /\ sandbox = NoSandboxResult
    /\ syscalls = <<>>
    /\ bpf = NoBpf
    /\ stream = NoStream
    /\ manifest = NoManifest
    /\ InitAux
    /\ sup = [NoSup EXCEPT !.pc = "poll", !.i = 1,
                           !.history = [c \in 1..Len(Connectors) |-> <<>>]]

NextSup ==
    \/ SupPollError
    \/ SupPoll
    \/ SupHandle
    \/ SupEndTick

SpecSup == InitSup /\ [][NextSup]_vars

\* ------------------------------------------------------------------------
\* Claims about the supervisor loop
\* ------------------------------------------------------------------------

TurnErrors == {"LLM API error", "unexpected stop reason", "max tool rounds exceeded"}

Handled == Cardinality({k \in 1..Len(sup.log) : sup.log[k].ev = "message"})

\* C28: a turn that fails is followed by the send of 'Error: <text>' on the
\* same connector and by the trim of the history to MAX_HISTORY_MESSAGES;
\* the rest of the batch is handled and the loop goes on to the next
\* connector and the next pass; a poll error is followed by a sleep of 5 s
\* and, in the same pass, by the poll of the connector after it.
C28_SupervisorGoesOn ==
    /\ sup.pc \in {"poll", "handle", "end_tick"}
    /\ sup.tick < MaxTicks => ENABLED NextSup
    /\ \A k \in 1..Len(sup.log) :
            sup.log[k].ev = "run_agent_turn" /\ sup.log[k].text[1] \in TurnErrors =>
                /\ k + 2 <= Len(sup.log)
                /\ sup.log[k + 1].ev = "send_message"
                /\ sup.log[k + 1].c = sup.log[k].c
                /\ sup.log[k + 1].text = <<"Error: ", sup.log[k].text[1]>>
                /\ sup.log[k + 2].ev = "trim"
                /\ sup.log[k + 2].n <= MAX_HISTORY_MESSAGES
    /\ \A c \in 1..Len(Connectors) : Len(sup.history[c]) <= MAX_HISTORY_MESSAGES
    /\ sup.log # <<>> /\ sup.log[1].ev = "poll_ok" =>
            /\ Handled + (IF sup.pc = "handle" THEN Len(sup.batch) ELSE 0) = sup.log[1].n
            /\ sup.pc = "handle" => sup.i = sup.log[1].c /\ sup.batch # <<>>
            /\ sup.pc # "handle" => sup.i = sup.log[1].c + 1
    /\ sup.log # <<>> /\ sup.log[1].ev = "poll_error" =>
            /\ sup.log = << Event("poll_error", sup.log[1].c, <<>>, sup.tick),
                            Event("sleep", sup.log[1].c, <<>>, 5) >>
            /\ sup.i = sup.log[1].c + 1
            /\ sup.pc = (IF sup.log[1].c < Len(Connectors) THEN "poll" ELSE "end_tick")

\* the first message of a batch of two exhausted its rounds, the error was
\* sent, the history was trimmed and the second message was handled, all on
\* the connector polled after a poll error of the first
C28_Witness ==
    /\ sup.i = 3 /\ sup.pc = "end_tick" /\ Len(sup.log) >= 6
    /\ sup.log[3] = Event("run_agent_turn", 2, <<"max tool rounds exceeded">>,
                          MAX_HISTORY_MESSAGES + 1)
    /\ sup.log[4] = Event("send_message", 2, <<"Error: ", "max tool rounds exceeded">>, 0)
    /\ sup.log[5] = Event("trim", 2, <<>>, MAX_HISTORY_MESSAGES)
    /\ sup.log[6].ev = "message"

\* ------------------------------------------------------------------------
\* Claims about the output of run_command
\* ------------------------------------------------------------------------

Separator == <<"\n--- stderr ---\n">>

\* the child of a run_command was waited for and its output returned
Completed ==
    /\ child.kind = "command" /\ step = "done" /\ ~child.killed
    /\ outcome.ok \/ Head(outcome.text) = "command exited with status "

\* the output text: the whole result, or what follows the status line
OutputText == IF outcome.ok THEN outcome.text ELSE SubSeq(outcome.text, 4, Len(outcome.text))

\* C29 as stated: the separator precedes a non-empty stderr also when
\* stdout is empty.
C29_SeparatorAlways ==
    Completed =>
        OutputText = child.stdout \o
            (IF child.stderr # <<>> THEN Separator \o child.stderr ELSE <<>>)

\* C29: the output text of a completed run_command child is its stdout,
\* followed by its stderr, with the separator between them when neither is
\* empty; with an empty stdout it is the stderr alone.
C29_Output ==
    Completed =>
        /\ child.stdout # <<>> /\ child.stderr # <<>> =>
                OutputText = child.stdout \o Separator \o child.stderr
        /\ child.stdout = <<>> => OutputText = child.stderr
        /\ child.stderr = <<>> => OutputText = child.stdout

\* a child that wrote to stderr only: the output is what it wrote
C29_Witness ==
    /\ Completed /\ outcome.ok
    /\ child.stdout = <<>> /\ child.stderr = <<"e">>
    /\ outcome.text = <<"e">>

\* ------------------------------------------------------------------------
\* skills/manifest.rs: parse_manifest, on the document parse_toml returns.
\* A value of the document is absent, a string, an integer or a list.
\* ------------------------------------------------------------------------

MaxNameLen == 2

Absent == [t |-> "absent", s |-> <<>>]

Str(s) == [t |-> "str", s |-> s]

\* an integer, kept as its decimal digits
Int_(digits) == [t |-> "int", s |-> digits]

StrList(items) == [t |-> "list", s |-> items]

\* TomlDoc::get_str: a string, or an integer printed; None otherwise
TomlDoc_get_str(v) == IF v.t \in {"str", "int"} THEN Some(v.s) ELSE None

AsciiAlphanumeric ==
    { "a", "b", "c", "d", "e", "f", "g", "h", "i", "j", "k", "l", "m",
      "n", "o", "p", "q", "r", "s", "t", "u", "v", "w", "x", "y", "z",
      "A", "B", "C", "D", "E", "F", "G", "H", "I", "J", "K", "L", "M",
      "N", "O", "P", "Q", "R", "S", "T", "U", "V", "W", "X", "Y", "Z",
      "0", "1", "2", "3", "4", "5", "6", "7", "8", "9" }

\* tool_name.chars().all(|c| c.is_ascii_alphanumeric() || c == '_')
valid_tool_name(name) ==
    \A i \in 1..Len(name) : name[i] \in AsciiAlphanumeric \/ name[i] = "_"

\* parse_manifest: the required fields, then the check of the tool name
parse_manifest(doc) ==
    IF TomlDoc_get_str(doc.skill_name) = None THEN [ok |-> FALSE, tool_name |-> <<>>]
    ELSE IF TomlDoc_get_str(doc.skill_binary) = None THEN [ok |-> FALSE, tool_name |-> <<>>]
    ELSE IF TomlDoc_get_str(doc.tool_name) = None THEN [ok |-> FALSE, tool_name |-> <<>>]
    ELSE IF ~valid_tool_name(TomlDoc_get_str(doc.tool_name).v) THEN [ok |-> FALSE, tool_name |-> <<>>]
    ELSE [ok |-> TRUE, tool_name |-> TomlDoc_get_str(doc.tool_name).v]

\* the characters tool names are drawn from; U+00E9 is the letter e with an
\* acute accent, alphabetic and not ASCII
NameChars == {"a", "Z", "7", "_", "-", " ", "U+00E9"}

Names == UNION { [1..n -> NameChars] : n \in 0..MaxNameLen }

Manifests ==
    [ skill_name : {Absent, Str(<<"t">>)},
      skill_binary : {Absent, Str(<<"b">>)},
      tool_name : {Absent, Int_(<<"7">>), StrList(<<>>)} \cup { Str(n) : n \in Names } ]

ParseManifest ==
    /\ ~manifest.parsed
    /\ manifest' = [manifest EXCEPT
                        !.parsed = TRUE,
                        !.ok = parse_manifest(manifest.doc).ok,
                        !.tool_name = parse_manifest(manifest.doc).tool_name]
    /\ UNCHANGED <<envVars, capVars, toolVars, turnVars, procVars, entry, boot, did, kernel, sandbox, syscalls, bpf,
                   stream, sup, auxVars>>

InitManifest ==
    /\ caps = Policy(<<>>, <<>>, <<>>)
    /\ fs = FS0
    /\ InitCapQuery
    /\ InitTool
    /\ telegram_allowed_users = <<>>
    /\ InitTurn
    /\ InitProc
    /\ entry = NoEntry
    /\ boot = "none"
    /\ did = <<>>
    /\ kernel = NoKernel
    /\ sandbox = NoSandboxResult
    /\ syscalls = <<>>
    /\ bpf = NoBpf
    /\ stream = NoStream
    /\ sup = NoSup
    /\ InitAux
    /\ \E doc \in Manifests : manifest = [NoManifest EXCEPT !.doc = doc]

NextManifest == ParseManifest

SpecManifest == InitManifest /\ [][NextManifest]_vars

\* ------------------------------------------------------------------------
\* Claims about parse_manifest
\* ------------------------------------------------------------------------

\* the characters of NameChars that [A-Za-z0-9_] contains
WordChars == {"a", "Z", "7", "_"}

\* [A-Za-z0-9_]+ on the names drawn
MatchesWord(name) == name # <<>> /\ \A i \in 1..Len(name) : name[i] \in WordChars

HasRequired(doc) ==
    /\ doc.skill_name.t = "str" /\ doc.skill_binary.t = "str"
    /\ doc.tool_name.t \in {"str", "int"}

\* C30: parse_manifest accepts a manifest only if its tool name matches
\* [A-Za-z0-9_]+, and accepts, with that tool name, every manifest that has
\* the required fields and a matching tool name.
C30_ToolNameChecked ==
    manifest.parsed =>
        /\ manifest.ok => MatchesWord(manifest.doc.tool_name.s)
        /\ HasRequired(manifest.doc) /\ MatchesWord(manifest.doc.tool_name.s) =>
                manifest.ok /\ manifest.tool_name = manifest.doc.tool_name.s

\* ------------------------------------------------------------------------
\* messaging/mod.rs: split_message. A text is its UTF-8 bytes; lengths and
\* indices are in bytes; a slice that does not fall on a character boundary
\* panics.
\* ------------------------------------------------------------------------

MaxTextLen == 5

MaxChunk == 3

Newline == "\n"

\* the two bytes of a character outside ASCII
LeadByte == "C3"

ContinuationByte == "A9"

Bytes == {"a", Newline, LeadByte, ContinuationByte}

\* the byte sequences that are UTF-8
is_utf8(s) ==
    /\ \A i \in 1..Len(s) : s[i] = LeadByte => i < Len(s) /\ s[i + 1] = ContinuationByte
    /\ \A i \in 1..Len(s) : s[i] = ContinuationByte => i > 1 /\ s[i - 1] = LeadByte

Texts == { s \in UNION { [1..n -> Bytes] : n \in 0..MaxTextLen } : is_utf8(s) }

\* str::is_char_boundary
is_char_boundary(s, index) ==
    \/ index = 0
    \/ index = Len(s)
    \/ index < Len(s) /\ s[index + 1] # ContinuationByte

\* str::rfind('\n'): the byte index of the last newline, if any
rfind_newline(s) ==
    IF \E i \in 1..Len(s) : s[i] = Newline
        THEN Some(CHOOSE i \in 0..(Len(s) - 1) :
                    /\ s[i + 1] = Newline
                    /\ \A j \in (i + 1)..(Len(s) - 1) : s[j + 1] # Newline)
    ELSE None

\* `if rest.starts_with('\n') { &rest[1..] } else { rest }`
skip_newline(rest) == IF rest # <<>> /\ Head(rest) = Newline THEN Tail(rest) ELSE rest

\* one pass of the body of `while !remaining.is_empty()`
split_step(sp) ==
    IF Len(sp.remaining) <= sp.max_len
        THEN [sp EXCEPT !.chunks = Append(sp.chunks, sp.remaining), !.state = "returned",
                        !.steps = sp.steps + 1]
    ELSE IF ~is_char_boundary(sp.remaining, sp.max_len)
        THEN [sp EXCEPT !.state = "panicked", !.steps = sp.steps + 1]
    ELSE LET found == rfind_newline(SubSeq(sp.remaining, 1, sp.max_len))
             split_at == IF found = None THEN sp.max_len ELSE found.v
             chunk == SubSeq(sp.remaining, 1, split_at)
             rest == SubSeq(sp.remaining, split_at + 1, Len(sp.remaining))
         IN [sp EXCEPT !.chunks = Append(sp.chunks, chunk),
                       !.remaining = skip_newline(rest),
                       !.state = IF skip_newline(rest) = <<>> THEN "returned" ELSE "loop",
                       !.steps = sp.steps + 1]

splitVars == <<envVars, capVars, toolVars, turnVars, procVars,
               entry, boot, did, kernel, sandbox, syscalls, bpf,
               stream, sup, manifest, telegram, pipe>>

\* the call: a text within max_len is returned as it is
SplitEnter ==
    /\ splitting.state = "called"
    /\ splitting' =
        IF Len(splitting.text) <= splitting.max_len
            THEN [splitting EXCEPT !.chunks = <<splitting.text>>, !.state = "returned"]
        ELSE [splitting EXCEPT !.remaining = splitting.text, !.state = "loop"]
    /\ UNCHANGED splitVars

SplitStep ==
    /\ splitting.state = "loop"
    /\ splitting' = split_step(splitting)
    /\ UNCHANGED splitVars

InitSplit ==
    /\ caps = Policy(<<>>, <<>>, <<>>)
    /\ fs = FS0
    /\ InitCapQuery
    /\ InitTool
    /\ telegram_allowed_users = <<>>
    /\ InitTurn
    /\ InitProc
    /\ entry = NoEntry
    /\ boot = "none"
    /\ did = <<>>
    /\ kernel = NoKernel
    /\ sandbox = NoSandboxResult
    /\ syscalls = <<>>
    /\ bpf = NoBpf
    /\ stream = NoStream
    /\ sup = NoSup
    /\ manifest = NoManifest
    /\ telegram = NoTelegram
    /\ pipe = NoPipe
    /\ \E text \in Texts, max_len \in 1..MaxChunk :
        splitting = [NoSplit EXCEPT !.text = text, !.max_len = max_len, !.state = "called"]

NextSplit == SplitEnter \/ SplitStep

SpecSplit == InitSplit /\ [][NextSplit]_vars

\* ------------------------------------------------------------------------
\* Claims about split_message
\* ------------------------------------------------------------------------

\* the chunks, with one newline at most put back after each, are the text
RECURSIVE Rejoins(_, _)
Rejoins(chunks, text) ==
    IF chunks = <<>> THEN text = <<>>
    ELSE LET c == Head(chunks)
             r == SubSeq(text, Len(c) + 1, Len(text))
         IN /\ Len(c) <= Len(text)
            /\ SubSeq(text, 1, Len(c)) = c
            /\ \/ Rejoins(Tail(chunks), r)
               \/ r # <<>> /\ Head(r) = Newline /\ Rejoins(Tail(chunks), Tail(r))

\* C31: split_message does not panic and makes at most one pass per byte of
\* the text; the chunks it returns are at most max_len long and are the
\* text less one newline at most at each split; a text within max_len is
\* returned as one unchanged chunk.
C31_Split ==
    /\ splitting.state # "panicked"
    /\ splitting.steps <= Len(splitting.text) + 1
    /\ splitting.state = "returned" =>
        /\ \A k \in 1..Len(splitting.chunks) : Len(splitting.chunks[k]) <= splitting.max_len
        /\ Rejoins(splitting.chunks, splitting.text)
        /\ Len(splitting.text) <= splitting.max_len =>
                splitting.chunks = <<splitting.text>>

\* the same of the texts that hold ASCII characters only
C31_SplitAscii ==
    (\A i \in 1..Len(splitting.text) : splitting.text[i] \in {"a", Newline}) => C31_Split

\* ------------------------------------------------------------------------
\* Claims about where the file tools and the path checks reach
\* ------------------------------------------------------------------------

\* the node is the resolved location of an entry of the list, or lies
\* beneath it in the directory tree
Beneath(fsys, node, allowed) ==
    \E i \in 1..Len(allowed) :
        LET entry_node == canonicalize(fsys, components(allowed[i]))
        IN entry_node.ok /\ starts_with(node, entry_node.path)

\* the nodes a step creates or modifies
Written == { n \in DOMAIN fs' : n \notin DOMAIN fs \/ fs'[n] # fs[n] }

\* C34: a write_file invocation creates or modifies only files that are, or
\* lie beneath, the resolved location of an entry of write_paths.
C34_WritesStayInside ==
    [][call'.name = "write_file" =>
            \A n \in Written : Beneath(fs, n, caps.allowed_write_paths)]_vars


\* the path string names the entry itself or a location beneath it: the
\* entry is followed, in the path, by nothing or by a separator
UnderEntry(path, prefix) ==
    \/ path = prefix
    \/ prefix # <<>> /\ Last(prefix) = Slash /\ starts_with(path, prefix)
    \/ starts_with(path, prefix \o <<Slash>>)

\* C35: check_file_read / check_file_write allow a path only when its
\* canonical form is an entry of the allowlist or lies beneath an entry in the
\* directory tree; sharing a leading character string with an entry is not
\* enough.
C35_BeneathAnEntry ==
    (cap_query.op \in {"read", "write"} /\ cap_result # Pending /\ cap_result.allowed) =>
        \E i \in 1..Len(QueriedList) :
            UnderEntry(path_str(CanonicalForm(fs, cap_query.arg).path),
                       EntryPrefix(fs, QueriedList[i]))


\* ------------------------------------------------------------------------
\* agent/tools.rs, platform/linux.rs, skills/ipc.rs: the parent, the child
\* and the pipes between them, byte by byte
\* ------------------------------------------------------------------------

\* the bytes a pipe holds before a write to it blocks
PipeCapacity == 2

\* the most bytes a command writes to its stdout
MaxOutput == 3

\* the most bytes of a skill request line
MaxRequest == 3

\* how long the model lets a blocked parent stay blocked
MaxClock == from_secs(skill_timeout) + 3

\* the timeout of the invocation, in seconds
timeout_secs(p) == IF p.mode = "command" THEN command_timeout_secs ELSE skill_timeout

\* the child has a step it can take now: a write its stdout pipe has room
\* for, a read of a byte its stdin pipe holds, or its exit
may_finish(p) ==
    /\ p.output = 0 /\ p.work = 0 /\ ~p.stays
    /\ p.reads => (p.request = 0 /\ p.stdin_pipe = 0)

child_ready(p) ==
    /\ p.child = "running"
    /\ \/ p.output > 0 /\ p.stdout_pipe < PipeCapacity
       \/ p.reads /\ p.stdin_pipe > 0
       \/ may_finish(p)

\* a poll interval passes: a child that is not blocked in a write gets on
\* with what it does before it exits
tick(p) ==
    [p EXCEPT !.clock = p.clock + 1,
              !.work = IF p.output = 0 /\ p.work > 0 THEN p.work - 1 ELSE p.work]

pipeVars == <<envVars, capVars, toolVars, turnVars, procVars,
              entry, boot, did, kernel, sandbox, syscalls, bpf,
              stream, sup, manifest, splitting, telegram>>

\* exec_run_command: the child is spawned with stdout piped, start is taken.
\* The child writes some bytes and exits by itself before the timeout if
\* nothing blocks it
PipeRunCommand ==
    /\ pipe.mode = "none"
    /\ \E out \in 0..MaxOutput, w \in 0..(from_secs(command_timeout_secs) - 1) :
        pipe' = [NoPipe EXCEPT !.mode = "command", !.child = "running",
                               !.output = out, !.work = w, !.step = "wait"]
    /\ UNCHANGED pipeVars

\* SkillRunner::execute: the skill is spawned and invoke_skill is entered
\* with a request line of some size. The child reads its stdin or not, and
\* exits by itself or not
PipeInvokeSkill ==
    /\ pipe.mode = "none"
    /\ \E req \in 1..MaxRequest, r \in BOOLEAN, st \in BOOLEAN,
          w \in 0..(from_secs(skill_timeout) - 1) :
        pipe' = [NoPipe EXCEPT !.mode = "skill", !.child = "running", !.request = req,
                               !.reads = r, !.stays = st, !.work = w, !.step = "write"]
    /\ UNCHANGED pipeVars

\* the child writes a byte of its output to its stdout pipe
ChildWrites ==
    /\ pipe.child = "running" /\ pipe.output > 0 /\ pipe.stdout_pipe < PipeCapacity
    /\ pipe' = [pipe EXCEPT !.output = pipe.output - 1,
                            !.stdout_pipe = pipe.stdout_pipe + 1]
    /\ UNCHANGED pipeVars

\* the child reads a byte of the request from its stdin pipe
ChildReads ==
    /\ pipe.child = "running" /\ pipe.reads /\ pipe.stdin_pipe > 0
    /\ pipe' = [pipe EXCEPT !.stdin_pipe = pipe.stdin_pipe - 1]
    /\ UNCHANGED pipeVars

\* the child exits
ChildExits ==
    /\ pipe.child = "running" /\ may_finish(pipe)
    /\ pipe' = [pipe EXCEPT !.child = "zombie"]
    /\ UNCHANGED pipeVars

\* stdin.write_all(request_str): a byte goes into the stdin pipe when the
\* pipe has room; the write fails when the child has exited. After the last
\* byte the stdin is flushed and start is taken
PipeWrite ==
    /\ pipe.step = "write"
    /\ \/ /\ pipe.child = "running" /\ pipe.stdin_pipe < PipeCapacity
          /\ pipe' = [pipe EXCEPT !.request = pipe.request - 1,
                                  !.stdin_pipe = pipe.stdin_pipe + 1,
                                  !.elapsed = 0,
                                  !.step = IF pipe.request = 1 THEN "wait" ELSE "write"]
       \/ /\ pipe.child = "zombie"
          /\ pipe' = [pipe EXCEPT !.result = "write_error", !.step = "done"]
    /\ UNCHANGED pipeVars

\* write_all blocked on a full pipe nobody reads: time passes
PipeWriteBlocked ==
    /\ pipe.step = "write" /\ pipe.child = "running"
    /\ pipe.stdin_pipe = PipeCapacity /\ ~child_ready(pipe)
    /\ pipe.clock < MaxClock
    /\ pipe' = tick(pipe)
    /\ UNCHANGED pipeVars

\* one turn of the wait loop: try_wait, then the timeout test. The child is
\* as far as it gets by itself when the parent looks
PipePoll ==
    /\ pipe.step = "wait" /\ ~child_ready(pipe)
    /\ pipe' =
        IF pipe.child = "zombie"
            THEN [pipe EXCEPT !.child = "reaped", !.step = "read"]
        ELSE IF expired(pipe.elapsed, timeout_secs(pipe))
            THEN [pipe EXCEPT !.child = "killed", !.result = "timed_out", !.step = "done"]
        ELSE [pipe EXCEPT !.step = "sleep"]
    /\ UNCHANGED pipeVars

\* thread::sleep(100 ms)
PipeSleep ==
    /\ pipe.step = "sleep" /\ ~child_ready(pipe)
    /\ pipe' = [tick(pipe) EXCEPT !.elapsed = pipe.elapsed + 1, !.step = "wait"]
    /\ UNCHANGED pipeVars

\* read_to_end / read_line on the stdout of the child that has exited
PipeRead ==
    /\ pipe.step = "read"
    /\ pipe' = [pipe EXCEPT !.got = pipe.stdout_pipe, !.stdout_pipe = 0,
                            !.result = "exited", !.step = "done"]
    /\ UNCHANGED pipeVars

InitPipe ==
    /\ caps = Policy(<<>>, <<>>, <<>>)
    /\ fs = FS0
    /\ InitCapQuery
    /\ InitTool
    /\ telegram_allowed_users = <<>>
    /\ InitTurn
    /\ InitProc
    /\ InitSys

NextPipe ==
    \/ PipeRunCommand
    \/ PipeInvokeSkill
    \/ ChildWrites
    \/ ChildReads
    \/ ChildExits
    \/ PipeWrite
    \/ PipeWriteBlocked
    \/ PipePoll
    \/ PipeSleep
    \/ PipeRead

SpecPipe == InitPipe /\ [][NextPipe]_vars

\* C36: a command that would exit by itself within the timeout when its
\* output is drained never makes run_command return a timeout, however many
\* bytes it writes.
C36_NoTimeoutOnOutput ==
    pipe.mode = "command" => pipe.result # "timed_out"

\* run_command returned the exit of a child and all the bytes it wrote
C36_Drained ==
    (pipe.mode = "command" /\ pipe.result = "exited") => pipe.output = 0

\* C37: invoke_skill returns no later than the skill timeout plus one poll
\* interval after it was entered, whatever the child does and however long
\* the request is.
C37_ReturnsInTime ==
    (pipe.mode = "skill" /\ pipe.step # "done") =>
        pipe.clock <= from_secs(skill_timeout) + 1


\* ------------------------------------------------------------------------
\* Claims about the order of the turns in a history
\* ------------------------------------------------------------------------

\* the first turn is a user turn and no two adjacent turns have one role
Alternates(history) ==
    /\ history # <<>> => history[1].role = "user"
    /\ \A i \in 1..(Len(history) - 1) : history[i].role # history[i + 1].role

\* C38: in every reachable state the roles in every stored history
\* alternate, beginning with a user turn.
C38_RolesAlternate ==
    \A c \in DOMAIN conversations : Alternates(conversations[c])


\* ------------------------------------------------------------------------
\* platform/linux.rs: LinuxPlatform's capability checks
\* ------------------------------------------------------------------------

\* Result<String, PlatformError>
OkString(str) == [ok |-> TRUE, s |-> str]

NotFound == [ok |-> FALSE, s |-> <<>>]

\* faulty variant: a path that does not resolve is an error, its parent is
\* not tried
LinuxPlatform_canonicalize_strict(fsys, path) ==
    IF canonicalize(fsys, components(path)).ok
        THEN OkString(path_str(canonicalize(fsys, components(path)).path))
    ELSE NotFound

\* LinuxPlatform::canonicalize: fs::canonicalize(path), or for a path that
\* does not resolve the canonical parent joined with the file name
LinuxPlatform_canonicalize(fsys, path) ==
    LET p == components(path) IN
    IF canonicalize(fsys, p).ok THEN OkString(path_str(canonicalize(fsys, p).path))
    ELSE IF ~parent(p).some THEN NotFound
    ELSE IF ~canonicalize(fsys, parent(p).v).ok THEN NotFound
    ELSE IF ~file_name(p).some THEN NotFound
    ELSE OkString(path_str(Append(canonicalize(fsys, parent(p).v).path, file_name(p).v)))

check_path_allowed(fsys, path, allowed) ==
    IF allowed = <<>> THEN FALSE
    ELSE IF ~LinuxPlatform_canonicalize(fsys, path).ok THEN FALSE
    ELSE \E i \in 1..Len(allowed) :
            starts_with(LinuxPlatform_canonicalize(fsys, path).s,
                        IF canonicalize(fsys, components(allowed[i])).ok
                            THEN path_str(canonicalize(fsys, components(allowed[i])).path)
                        ELSE allowed[i])

\* LinuxPlatform::check_capability; the platform holds the three allowlists
\* of the configuration, as the CapabilityChecker does
check_capability(fsys, platform, cap_type, resource) ==
    CASE cap_type = "FileRead" ->
            check_path_allowed(fsys, resource, platform.allowed_read_paths)
      [] cap_type = "FileWrite" ->
            check_path_allowed(fsys, resource, platform.allowed_write_paths)
      [] cap_type = "Command" ->
            IF platform.allowed_commands = <<>> THEN FALSE
            ELSE LET base == IF file_name(components(resource)).some
                                THEN file_name(components(resource)).v
                             ELSE resource
                 IN \E i \in 1..Len(platform.allowed_commands) :
                        \/ platform.allowed_commands[i] = base
                        \/ platform.allowed_commands[i] = resource
      [] OTHER -> TRUE

\* the CapType of the check a query asks for
CapTypeOf(op) ==
    CASE op = "read" -> "FileRead" [] op = "write" -> "FileWrite" [] OTHER -> "Command"

\* C39: for a read, a write or a command, LinuxPlatform.check_capability
\* returns true exactly when the CapabilityChecker's check_file_read,
\* check_file_write or check_command returns Allowed for the same policy and
\* resource.
C39_PlatformAgrees ==
    (cap_query.op \in {"read", "write", "command"} /\ cap_result # Pending) =>
        (cap_result.allowed <=>
            check_capability(fs, caps, CapTypeOf(cap_query.op), cap_query.arg))

\* both allow the write of a leaf that does not exist yet, through the
\* canonical form of its parent
C39_Witness ==
    /\ cap_query.op = "write" /\ cap_result.allowed
    /\ ~canonicalize(fs, components(cap_query.arg)).ok
    /\ check_capability(fs, caps, "FileWrite", cap_query.arg)


\* ------------------------------------------------------------------------
\* messaging/telegram.rs: TelegramClient::get_updates against the Bot API
\* ------------------------------------------------------------------------

\* the updates the server creates in a run
MaxUpdates == 4

\* the calls of getUpdates in a run
MaxPolls == 3

\* what a message update carries: a text, or something else (a photo, a
\* sticker, a location) and no text
UpdateKinds == {"text", "photo"}

\* parse_update: Some(message) for an update with update_id, message, text
\* and chat id; None for any other
parse_update(update) ==
    IF update.kind = "text" THEN Some([update_id |-> update.update_id]) ELSE None

\* the loop of get_updates over the result array, from position i on
RECURSIVE take_updates(_, _, _, _)
take_updates(results, i, last_offset, msgs) ==
    IF i > Len(results) THEN [last_offset |-> last_offset, msgs |-> msgs]
    ELSE IF parse_update(results[i]).some
        THEN take_updates(results, i + 1,
                          IF parse_update(results[i]).v.update_id >= last_offset
                              THEN parse_update(results[i]).v.update_id + 1
                          ELSE last_offset,
                          Append(msgs, parse_update(results[i]).v))
    ELSE take_updates(results, i + 1, last_offset, msgs)

\* the Bot API's getUpdates: the updates with an id of at least the offset,
\* oldest first; those below the offset are confirmed and forgotten
unconfirmed(updates, offset) ==
    SelectSeq(updates, LAMBDA u : u.update_id >= offset)

update_ids(updates) == [k \in 1..Len(updates) |-> updates[k].update_id]

telegramVars == <<envVars, capVars, toolVars, turnVars, procVars,
                  entry, boot, did, kernel, sandbox, syscalls, bpf,
                  stream, sup, manifest, splitting, pipe>>

\* somebody sends the bot a message: the server queues an update with the
\* next update id
UpdateArrives ==
    /\ telegram.next_id <= MaxUpdates
    /\ \E kind \in UpdateKinds :
        telegram' = [telegram EXCEPT
            !.pending = Append(telegram.pending,
                               [update_id |-> telegram.next_id, kind |-> kind]),
            !.next_id = telegram.next_id + 1]
    /\ UNCHANGED telegramVars

\* get_updates with an "ok" response: the server answers with the first
\* updates it holds from the offset on, the client parses them, moves
\* last_offset and returns the messages
GetUpdates ==
    /\ telegram.polls < MaxPolls
    /\ \E n \in 0..Len(unconfirmed(telegram.pending, telegram.last_offset)) :
        LET held == unconfirmed(telegram.pending, telegram.last_offset)
            results == SubSeq(held, 1, n)
            taken == take_updates(results, 1, telegram.last_offset, <<>>)
        IN  /\ n = 0 => held = <<>>
            /\ telegram' = [telegram EXCEPT
                    !.pending = held,
                    !.response = results,
                    !.returned = telegram.returned \o update_ids(results),
                    !.last_offset = taken.last_offset,
                    !.handed = telegram.handed \o update_ids(taken.msgs),
                    !.polls = telegram.polls + 1,
                    !.last = "ok"]
    /\ UNCHANGED telegramVars

\* get_updates fails: the request, the body, the JSON or the "ok" field
GetUpdatesFails ==
    /\ telegram.polls < MaxPolls
    /\ telegram' = [telegram EXCEPT !.response = <<>>, !.polls = telegram.polls + 1,
                                    !.last = "err"]
    /\ UNCHANGED telegramVars

InitTelegram ==
    /\ caps = Policy(<<>>, <<>>, <<>>)
    /\ fs = FS0
    /\ InitCapQuery
    /\ InitTool
    /\ telegram_allowed_users = <<>>
    /\ InitTurn
    /\ InitProc
    /\ InitSys

NextTelegram ==
    \/ UpdateArrives
    \/ GetUpdates
    \/ GetUpdatesFails

SpecTelegram == InitTelegram /\ [][NextTelegram]_vars

\* C40: after a successful get_updates the poll offset is greater than the
\* update id of every update of the response, those without a text
\* included, so that no update is returned twice.
C40_OffsetPassesResponse ==
    telegram.last = "ok" =>
        \A k \in 1..Len(telegram.response) :
            telegram.response[k].update_id < telegram.last_offset

\* the poll offset never decreases
C40_OffsetMonotone ==
    [][telegram'.last_offset >= telegram.last_offset]_vars

\* no inbound message is handed to the supervisor twice
C40_HandedOnce ==
    \A k, l \in 1..Len(telegram.handed) :
        telegram.handed[k] = telegram.handed[l] => k = l

\* the consequence the claim draws: no update is returned by the server
\* twice
C40_ReturnedOnce ==
    \A k, l \in 1..Len(telegram.returned) :
        telegram.returned[k] = telegram.returned[l] => k = l

====
